---- MODULE Spec2Model ----
(***************************************************************************)
(* Exhibitor extraction session (src/scraper/scraper.js) and its HTTP      *)
(* boundary (src/server.js): POST /api/scrape, scrapeExhibitors,           *)
(* handlePagination and the website-resolution loop.                       *)
(***************************************************************************)
EXTENDS Integers, Sequences, FiniteSets, TLC

VARIABLES
  caller,      \* "stream" | "json" | "direct": who starts the session
  url,         \* the url argument: [kind, s]
  reqOptions,  \* the options object given by the client / direct caller
  options,     \* the options object scrapeExhibitors receives
  pc,          \* position of the request / session
  page,        \* "null" | "open" | "closed" | "closeFailed": the page handle
  pending,     \* "none" | "return" | "throw": how scrapeExhibitors leaves
  pageType,    \* detectPageType(url), "" before it is computed
  exhibitors,  \* the running record list
  firstPage,   \* the records the adapter returned for the first page
  extracted,   \* the record list as extraction (adapter + pagination) left it
  paginated,   \* handlePagination has been called in this session
  pageCount,   \* handlePagination's pageCount
  without,     \* exhibitorsWithoutWebsite, as indices into exhibitors
  actualSearchCount,
  i,           \* index of the resolution loop
  trace,       \* events written / callbacks invoked / resolver calls, in order
  error,       \* message of the error scrapeExhibitors throws, "" if none
  response,    \* the non-streaming JSON response, [status |-> 0] before it
  navs,        \* the page.goto calls made so far: [wait, ok], in order
  lastOutcome, \* how the latest findCompanyWebsite call ended, "" before
  delayed,     \* delay(300) has elapsed since the latest resolver call ended
  document,    \* the candidate elements of the rendered page (adapter runs)
  resolver,    \* one call of findCompanyWebsite: its position and history
  pagLog,      \* what the call of handlePagination did: [op, list], in order
  shared       \* the module-level browser and the getBrowser calls in flight

vars == <<caller, url, reqOptions, options, pc, page, pending, pageType,
          exhibitors, firstPage, extracted, paginated, pageCount, without,
          actualSearchCount, i, trace, error, response, navs, lastOutcome,
          delayed, document, resolver, pagLog, shared>>

----------------------------------------------------------------------------
(* Bounds of the model *)

MaxPageRecords == 2   \* records the first page pass yields at most
MaxShortPages  == 1   \* pages after the first of a site that is not uniform
MaxSearchOpt   == 1   \* largest maxWebsiteSearches a caller passes

----------------------------------------------------------------------------
(* Options objects: functions from the keys present to their values *)

NoOptions == <<>>

Has(o, k) == k \in DOMAIN o

\* {...a, ...b}: the keys of b override those of a
Spread(a, b) == b @@ a

----------------------------------------------------------------------------
(* URLs are sequences of characters *)

Includes(s, pat) ==
  \E k \in 1..(Len(s) - Len(pat) + 1) : SubSeq(s, k, k + Len(pat) - 1) = pat

PatManifest        == <<"m","a","n","i","f","e",".","s","t">>
PatMapYourShow     == <<"m","a","p","y","o","u","r","s","h","o","w",".","c","o","m">>
PatA2Z             == <<"a","2","z","i","n","c",".","n","e","t">>
PatSmallWorldLabs  == <<"s","m","a","l","l","w","o","r","l","d","l","a","b","s",".","c","o","m">>
PatAffiliateSummit == <<"a","f","f","i","l","i","a","t","e","s","u","m","m","i","t",".","c","o","m">>
PatGoeShow         == <<"g","o","e","s","h","o","w",".","c","o","m">>
PatWpma            == <<"w","p","m","a",".","c","o","m">>
PatSurfExpo        == <<"s","u","r","f","e","x","p","o",".","c","o","m">>

\* detectPageType with the first two tests in the other order
detectPageTypeReordered(u) ==
  IF Includes(u, PatMapYourShow) THEN "mapyourshow"
  ELSE IF Includes(u, PatManifest) THEN "manifest"
  ELSE IF Includes(u, PatA2Z) THEN "a2z"
  ELSE IF Includes(u, PatSmallWorldLabs) THEN "smallworldlabs"
  ELSE IF Includes(u, PatAffiliateSummit) THEN "affiliatesummit"
  ELSE IF Includes(u, PatGoeShow) THEN "goeshow"
  ELSE IF Includes(u, PatWpma) THEN "wpma"
  ELSE IF Includes(u, PatSurfExpo) THEN "surfexpo"
  ELSE "generic"

detectPageType(u) ==
  IF Includes(u, PatManifest) THEN "manifest"
  ELSE IF Includes(u, PatMapYourShow) THEN "mapyourshow"
  ELSE IF Includes(u, PatA2Z) THEN "a2z"
  ELSE IF Includes(u, PatSmallWorldLabs) THEN "smallworldlabs"
  ELSE IF Includes(u, PatAffiliateSummit) THEN "affiliatesummit"
  ELSE IF Includes(u, PatGoeShow) THEN "goeshow"
  ELSE IF Includes(u, PatWpma) THEN "wpma"
  ELSE IF Includes(u, PatSurfExpo) THEN "surfexpo"
  ELSE "generic"

----------------------------------------------------------------------------
(* Records and what one adapter pass over one rendered page can return *)

\* booth stands for the booth label: 0 for none, the page number on the
\* records of the pages TailPage describes
Rec(n, w, pt, booth) ==
  [companyName |-> n, website |-> w, source |-> pt, booth |-> booth]

\* manifest, wpma and surfexpo records never carry a website
NoWebsiteTemplates == {"manifest", "wpma", "surfexpo"}

Pool(pt) ==
  IF pt \in NoWebsiteTemplates
  THEN {Rec("Acme", "", pt, 0), Rec("Gamma", "", pt, 0)}
  ELSE {Rec("Acme", "", pt, 0), Rec("Beta", "https://beta.com", pt, 0),
        Rec("Gamma", "", pt, 0)}

\* the lists a first page pass can return, up to the renaming of the two
\* records without a website: Gamma only ever follows Acme
PageLists(pt) ==
  {s \in UNION {[1..n -> Pool(pt)] : n \in 0..MaxPageRecords} :
     /\ \A a, b \in 1..Len(s) :
          a # b => s[a].companyName # s[b].companyName
     /\ \A b \in 1..Len(s) :
          s[b].companyName = "Gamma" =>
            \E a \in 1..(b - 1) : s[a].companyName = "Acme"}

TailName == "Tail"

\* the one record page number n of a site shows when it is a page of a
\* uniform site or an advanced page
TailPage(pt, n) ==
  IF pt \in NoWebsiteTemplates
  THEN <<Rec(TailName, "", pt, n)>>
  ELSE <<Rec(TailName, "https://tail.com", pt, n)>>

Uniform(ex) ==
  ex # <<>> /\ \A k \in 1..Len(ex) : ex[k].companyName = TailName

\* scrapeManifest guards every await; every other adapter has an unguarded
\* page.evaluate / page.$$ / waitForSelector
AdapterCanThrow(pt) == pt # "manifest"

Thrown == [throws |-> TRUE, list |-> <<>>]
Returned(l) == [throws |-> FALSE, list |-> l]

\* outcomes of the adapter on the first page: it throws or returns a list
FirstPageOutcomes(pt) ==
  (IF AdapterCanThrow(pt) THEN {Thrown} ELSE {})
    \cup {Returned(l) : l \in PageLists(pt) \cup {TailPage(pt, 1)}}

\* outcomes of the adapter on the page reached by advance number n + 1, the
\* list so far being ex.  The sites of the model are the uniform sites, of
\* any number of pages, and the sites whose first page is any list and that
\* have at most MaxShortPages further pages; a further page of such a site
\* may show the last record of the page before it once more.
NextPageOutcomes(pt, n, ex) ==
  (IF AdapterCanThrow(pt) THEN {Thrown} ELSE {})
    \cup {Returned(<<>>)}
    \cup (IF Uniform(ex) \/ n < MaxShortPages
          THEN {Returned(TailPage(pt, n + 2))} ELSE {})
    \cup (IF ex # <<>> /\ ~Uniform(ex) /\ n < MaxShortPages
          THEN {Returned(<<ex[Len(ex)]>>)} ELSE {})

\* what findCompanyWebsite can do for a company
ResolverOutcomes(name) ==
  IF name = TailName THEN {"none"} ELSE {"found", "none", "throw"}

FoundUrl == "https://found.com"

\* what findCompanyWebsite returns when it found no website
NoCandidate == ""

\* the resolver before findCompanyWebsite is called
IdleResolver == [pc |-> "idle"]

\* no concurrent getBrowser calls are followed
NoCalls == [browser |-> 0]

\* the value of the await at the call of findCompanyWebsite
ResolverReturn(r) == IF r = "found" THEN FoundUrl ELSE NoCandidate

----------------------------------------------------------------------------
(* Events and callbacks *)

Ev(type, phase, idx, website) ==
  [type |-> type, phase |-> phase, idx |-> idx, website |-> website]

\* options.onExhibitorFound(exhibitors[k]) when the callback is supplied
onExhibitorFound(o, tr, ex, k) ==
  IF Has(o, "onExhibitorFound")
  THEN Append(tr, Ev("exhibitor", "", k, ex[k].website))
  ELSE tr

\* options.onProgress({...}) when the callback is supplied
onProgress(o, tr, phase, k) ==
  IF Has(o, "onProgress") THEN Append(tr, Ev("progress", phase, k, "")) ELSE tr

RECURSIVE EmitAll(_, _, _, _)
\* for (const exhibitor of list) options.onExhibitorFound(exhibitor)
EmitAll(o, tr, ex, idxs) ==
  IF idxs = <<>> THEN tr
  ELSE EmitAll(o, onExhibitorFound(o, tr, ex, Head(idxs)), ex, Tail(idxs))

Indices(ex) == [k \in 1..Len(ex) |-> k]

\* exhibitors.filter(e => e.website && e.website !== '')
WithWebsite(ex) == SelectSeq(Indices(ex), LAMBDA k : ex[k].website # "")

\* exhibitors.filter(e => !e.website || e.website === '')
WithoutWebsite(ex) == SelectSeq(Indices(ex), LAMBDA k : ex[k].website = "")

\* options.findWebsites !== false
FindWebsitesOn(o) == ~(Has(o, "findWebsites") /\ o.findWebsites = FALSE)

\* EmitInitial with the filter on the website dropped
EmitInitialAll(o, tr, ex) ==
  IF Has(o, "onExhibitorFound") THEN EmitAll(o, tr, ex, Indices(ex)) ELSE tr

\* EmitInitial with the first branch dropped
EmitInitialSkip(o, tr, ex) ==
  IF Has(o, "onExhibitorFound") /\ ~FindWebsitesOn(o)
  THEN EmitAll(o, tr, ex, Indices(ex))
  ELSE tr

\* the two emission branches that follow pagination
EmitInitial(o, tr, ex) ==
  IF Has(o, "onExhibitorFound") /\ FindWebsitesOn(o)
  THEN EmitAll(o, tr, ex, WithWebsite(ex))
  ELSE IF Has(o, "onExhibitorFound") /\ ~FindWebsitesOn(o)
  THEN EmitAll(o, tr, ex, Indices(ex))
  ELSE tr

\* the else branch of the discovery step
EmitDisabled(o, tr, ex) ==
  IF Has(o, "onExhibitorFound") THEN EmitAll(o, tr, ex, Indices(ex)) ELSE tr

Min(a, b) == IF a < b THEN a ELSE b

\* SearchCount with the maxWebsiteSearches option ignored
SearchCountUnbounded(o, n) == n

SearchCount(o, n) ==
  Min(n, IF Has(o, "maxWebsiteSearches") THEN o.maxWebsiteSearches ELSE n)

----------------------------------------------------------------------------
(* Pagination policy and caps *)

\* ShouldPaginate with opt-in pagination for every template
ShouldPaginateOptIn(pt, o) ==
  Has(o, "handlePagination") /\ o.handlePagination = TRUE

ShouldPaginate(pt, o) ==
  IF pt = "smallworldlabs"
  THEN ~(Has(o, "handlePagination") /\ o.handlePagination = FALSE)
  ELSE Has(o, "handlePagination") /\ o.handlePagination = TRUE

DefaultMaxPages  == 5
SmallWorldMaxPages == 100
ManifestMaxPages == 20

\* maxPages with the manifest cap applied to the default
maxPagesSwapped(pt) ==
  IF pt = "manifest" THEN DefaultMaxPages
  ELSE IF pt = "smallworldlabs" THEN SmallWorldMaxPages
  ELSE ManifestMaxPages

maxPages(pt) ==
  IF pt = "manifest" THEN ManifestMaxPages
  ELSE IF pt = "smallworldlabs" THEN SmallWorldMaxPages
  ELSE DefaultMaxPages

----------------------------------------------------------------------------
(* The HTTP boundary's option defaults *)

DefaultMaxWebsiteSearches == 10

\* ServerDefaults with the pipeline's own default for findWebsites
ServerDefaultsFindOn(o) ==
  [findWebsites |-> IF Has(o, "findWebsites") THEN o.findWebsites ELSE TRUE,
   maxWebsiteSearches |->
     IF Has(o, "maxWebsiteSearches") /\ o.maxWebsiteSearches # 0
     THEN o.maxWebsiteSearches ELSE DefaultMaxWebsiteSearches,
   handlePagination |-> Has(o, "handlePagination") /\ o.handlePagination = TRUE]

ServerDefaults(o) ==
  [findWebsites |-> IF Has(o, "findWebsites") THEN o.findWebsites ELSE FALSE,
   maxWebsiteSearches |->
     IF Has(o, "maxWebsiteSearches") /\ o.maxWebsiteSearches # 0
     THEN o.maxWebsiteSearches ELSE DefaultMaxWebsiteSearches,
   handlePagination |-> Has(o, "handlePagination") /\ o.handlePagination = TRUE]

Callbacks == [onProgress |-> "fn", onExhibitorFound |-> "fn"]

\* scrapeOptions of the streaming branch
StreamScrapeOptions(o) == Spread(ServerDefaults(o) @@ Callbacks, o)

\* scrapeOptions of the non-streaming branch
JsonScrapeOptions(o) == Spread(ServerDefaults(o), o)

----------------------------------------------------------------------------
(* Requests the model starts from *)

UrlOf(s) == [kind |-> "string", s |-> s]
MissingUrl == [kind |-> "missing", s |-> <<>>]      \* undefined, null or ''
NonStringUrl == [kind |-> "nonstring", s |-> <<>>]  \* truthy, not a string

SessionUrls ==
  {UrlOf(<<"x", ".">> \o PatSmallWorldLabs \o <<"/", "e">>),
   UrlOf(<<"x", ".">> \o PatManifest),
   UrlOf(PatAffiliateSummit \o <<"/", "e">>),
   UrlOf(<<"e", "x", ".", "c", "o", "m">>),
   MissingUrl, NonStringUrl}

FindWebsitesChoices ==
  {NoOptions, [findWebsites |-> TRUE], [findWebsites |-> FALSE]}

HandlePaginationChoices ==
  {NoOptions, [handlePagination |-> TRUE], [handlePagination |-> FALSE]}

MaxSearchChoices ==
  {NoOptions} \cup {[maxWebsiteSearches |-> n] : n \in 0..MaxSearchOpt}

\* the options a client can send as JSON
DataOptions ==
  {f @@ h @@ m : f \in FindWebsitesChoices, h \in HandlePaginationChoices,
                 m \in MaxSearchChoices}

CallbackChoices == {NoOptions, Callbacks}

\* the options a direct caller of scrapeExhibitors can pass
DirectOptions == {d @@ c : d \in DataOptions, c \in CallbackChoices}

NoResponse == [status |-> 0]

\* one entry of the history of handlePagination
Did(op, list) == [op |-> op, list |-> list]

\* a whole session keeps no history of handlePagination: the history is
\* kept where the loop is studied on its own
NotKept == <<Did("notKept", <<>>)>>

\* the history with one more entry
Logged(e) == IF pagLog = NotKept THEN pagLog ELSE Append(pagLog, e)

Init ==
  /\ caller \in {"stream", "json", "direct"}
  /\ url \in SessionUrls
  /\ reqOptions \in (IF caller = "direct" THEN DirectOptions ELSE DataOptions)
  /\ options = NoOptions
  /\ pc = "request"
  /\ page = "null"
  /\ pending = "none"
  /\ pageType = ""
  /\ exhibitors = <<>>
  /\ firstPage = <<>>
  /\ extracted = <<>>
  /\ paginated = FALSE
  /\ pageCount = 0
  /\ without = <<>>
  /\ actualSearchCount = 0
  /\ i = 0
  /\ trace = <<>>
  /\ error = ""
  /\ response = NoResponse
  /\ navs = <<>>
  /\ lastOutcome = ""
  /\ delayed = FALSE
  /\ document = <<>>
  /\ resolver = IdleResolver
  /\ pagLog = NotKept
  /\ shared = NoCalls

sessionVars == <<page, pending, pageType, exhibitors, firstPage, extracted,
                 paginated,
                 pageCount, without, actualSearchCount, i, error, navs,
                 lastOutcome, delayed, document, resolver, pagLog, shared>>

----------------------------------------------------------------------------
(* POST /api/scrape and the direct call, up to the call of scrapeExhibitors *)

\* StreamRequest with the return after the 'URL is required' error missing
StreamRequestNoReturn ==
  /\ pc = "request" /\ caller = "stream"
  /\ options' = StreamScrapeOptions(reqOptions)
  /\ trace' = trace \o <<Ev("connected", "", 0, "")>>
                \o (IF url.kind = "missing"
                    THEN <<Ev("error", "URL is required", 0, "")>> ELSE <<>>)
                \o <<Ev("start", "", 0, "")>>
  /\ pc' = "validate"
  /\ UNCHANGED <<caller, url, reqOptions, sessionVars, response>>

\* streaming branch: connected, the url check, scrapeOptions, start
StreamRequest ==
  /\ pc = "request" /\ caller = "stream"
  /\ IF url.kind = "missing"
     THEN /\ trace' = trace \o <<Ev("connected", "", 0, ""),
                                 Ev("error", "URL is required", 0, "")>>
          /\ pc' = "done"
          /\ UNCHANGED options
     ELSE /\ options' = StreamScrapeOptions(reqOptions)
          /\ trace' = trace \o <<Ev("connected", "", 0, ""),
                                 Ev("start", "", 0, "")>>
          /\ pc' = "validate"
  /\ UNCHANGED <<caller, url, reqOptions, sessionVars, response>>

\* non-streaming branch: the url check and scrapeOptions
JsonRequest ==
  /\ pc = "request" /\ caller = "json"
  /\ IF url.kind = "missing"
     THEN /\ response' = [status |-> 400, error |-> "URL is required"]
          /\ pc' = "done"
          /\ UNCHANGED options
     ELSE /\ options' = JsonScrapeOptions(reqOptions)
          /\ pc' = "validate"
          /\ UNCHANGED response
  /\ UNCHANGED <<caller, url, reqOptions, sessionVars, trace>>

\* scrapeExhibitors(url, options) called by other code of the process
DirectRequest ==
  /\ pc = "request" /\ caller = "direct"
  /\ options' = reqOptions
  /\ pc' = "validate"
  /\ UNCHANGED <<caller, url, reqOptions, sessionVars, trace, response>>

----------------------------------------------------------------------------
(* scrapeExhibitors *)

Throw(msg) ==
  /\ pending' = "throw"
  /\ error' = msg
  /\ pc' = "finally"

\* if (!url || typeof url !== 'string') throw
ValidateUrl ==
  /\ pc = "validate"
  /\ IF url.kind # "string"
     THEN Throw("Invalid URL provided")
     ELSE pc' = "getBrowser" /\ UNCHANGED <<pending, error>>
  /\ UNCHANGED <<caller, url, reqOptions, options, page, pageType, exhibitors,
                 firstPage, extracted, paginated, pageCount, without, actualSearchCount,
                 i, trace, response,
                 navs, lastOutcome, delayed,
                 document, resolver, pagLog, shared>>

\* browser = await getBrowser(): a browser, or the launch fails
AcquireBrowser ==
  /\ pc = "getBrowser"
  /\ \E ok \in BOOLEAN :
       IF ok THEN pc' = "newPage" /\ UNCHANGED <<pending, error>>
       ELSE Throw("Failed to launch browser")
  /\ UNCHANGED <<caller, url, reqOptions, options, page, pageType, exhibitors,
                 firstPage, extracted, paginated, pageCount, without, actualSearchCount,
                 i, trace, response,
                 navs, lastOutcome, delayed,
                 document, resolver, pagLog, shared>>

\* page = await browser.newPage(); await page.setUserAgent(...)
NewPage ==
  /\ pc = "newPage"
  /\ \E outcome \in {"ok", "newPageFails", "setUserAgentFails"} :
       CASE outcome = "ok" ->
              page' = "open" /\ pc' = "goto" /\ UNCHANGED <<pending, error>>
         [] outcome = "newPageFails" ->
              UNCHANGED page /\ Throw("newPage failed")
         [] outcome = "setUserAgentFails" ->
              page' = "open" /\ Throw("setUserAgent failed")
  /\ UNCHANGED <<caller, url, reqOptions, options, pageType, exhibitors,
                 firstPage, extracted, paginated, pageCount, without, actualSearchCount,
                 i, trace, response,
                 navs, lastOutcome, delayed,
                 document, resolver, pagLog, shared>>

Nav(wait, ok) == [wait |-> wait, ok |-> ok]

\* Goto with the catch around the first page.goto missing
GotoNoRetry ==
  /\ pc = "goto"
  /\ \E ok \in BOOLEAN :
       /\ navs' = Append(navs, Nav("networkidle2", ok))
       /\ IF ok THEN pc' = "extract" /\ UNCHANGED <<pending, error>>
          ELSE Throw("navigation failed")
  /\ UNCHANGED <<caller, url, reqOptions, options, page, pageType, exhibitors,
                 firstPage, extracted, paginated, pageCount, without,
                 actualSearchCount, i, trace, response, lastOutcome, delayed,
                 document, resolver, pagLog, shared>>

\* page.goto(url, networkidle2)
Goto ==
  /\ pc = "goto"
  /\ \E ok \in BOOLEAN :
       /\ navs' = Append(navs, Nav("networkidle2", ok))
       /\ pc' = IF ok THEN "extract" ELSE "gotoRetry"
  /\ UNCHANGED <<caller, url, reqOptions, options, page, pending, pageType,
                 exhibitors, firstPage, extracted, paginated, pageCount,
                 without, actualSearchCount, i, trace, error, response,
                 lastOutcome, delayed,
                 document, resolver, pagLog, shared>>

\* catch (navError): page.goto(url, domcontentloaded)
GotoRetry ==
  /\ pc = "gotoRetry"
  /\ \E ok \in BOOLEAN :
       /\ navs' = Append(navs, Nav("domcontentloaded", ok))
       /\ IF ok THEN pc' = "extract" /\ UNCHANGED <<pending, error>>
          ELSE Throw("navigation failed")
  /\ UNCHANGED <<caller, url, reqOptions, options, page, pageType, exhibitors,
                 firstPage, extracted, paginated, pageCount, without, actualSearchCount,
                 i, trace, response, lastOutcome, delayed,
                 document, resolver, pagLog, shared>>

\* detectPageType, the adapter on the first page, the pagination decision
Extract ==
  /\ pc = "extract"
  /\ LET pt == detectPageType(url.s) IN
     /\ pageType' = pt
     /\ \E r \in FirstPageOutcomes(pt) :
          IF r.throws
          THEN /\ Throw("adapter failed")
               /\ UNCHANGED <<exhibitors, firstPage, extracted, paginated>>
          ELSE /\ exhibitors' = r.list
               /\ firstPage' = r.list
               /\ extracted' = r.list
               /\ paginated' = ShouldPaginate(pt, options)
               /\ pc' = IF ShouldPaginate(pt, options) THEN "pagHead"
                        ELSE "emit"
               /\ UNCHANGED <<pending, error>>
  /\ UNCHANGED <<caller, url, reqOptions, options, page, pageCount, without,
                 actualSearchCount, i, trace, response,
                 navs, lastOutcome, delayed,
                 document, resolver, pagLog, shared>>

----------------------------------------------------------------------------
(* handlePagination *)

\* what one pass of the loop finds before it re-runs the adapter
AdvanceOutcomes == {"noNext", "detectThrows", "clickFails", "advanced"}

\* the entry a pass of the loop leaves for what it found
HeadEntry(a) == Did(IF a = "advanced" THEN "click" ELSE a, <<>>)

\* while (pageCount < maxPages): detect the next control and click it
PagHead ==
  /\ pc = "pagHead"
  /\ IF pageCount < maxPages(pageType)
     THEN \E a \in AdvanceOutcomes :
            /\ pc' = IF a = "advanced" THEN "pagScrape" ELSE "emit"
            /\ pagLog' = Logged( HeadEntry(a))
     ELSE /\ pc' = "emit"
          /\ pagLog' = Logged( Did("cap", <<>>))
  /\ extracted' = IF pc' = "emit" THEN exhibitors ELSE extracted
  /\ UNCHANGED <<caller, url, reqOptions, options, page, pending, pageType,
                 exhibitors, firstPage, paginated, pageCount, without,
                 actualSearchCount, i, trace, error, response,
                 navs, lastOutcome, delayed,
                 document, resolver, shared>>

\* PagScrape appending only the records the list does not hold yet
PagScrapeDedup ==
  /\ pc = "pagScrape"
  /\ \E r \in NextPageOutcomes(pageType, pageCount, exhibitors) :
       IF r.throws \/ Len(r.list) = 0
       THEN /\ pc' = "emit"
            /\ pagLog' = Logged(
                           IF r.throws THEN Did("scrapeThrows", <<>>)
                           ELSE Did("scrape", <<>>))
            /\ UNCHANGED <<exhibitors, pageCount>>
       ELSE /\ exhibitors' = exhibitors \o
               SelectSeq(r.list, LAMBDA x :
                 \A k \in 1..Len(exhibitors) : exhibitors[k] # x)
            /\ pageCount' = pageCount + 1
            /\ pagLog' = Logged( Did("scrape", r.list))
            /\ pc' = "pagHead"
  /\ extracted' = IF pc' = "emit" THEN exhibitors ELSE extracted
  /\ UNCHANGED <<caller, url, reqOptions, options, page, pending, pageType,
                 firstPage, paginated, without, actualSearchCount, i, trace, error,
                 response,
                 navs, lastOutcome, delayed,
                 document, resolver, shared>>

\* PagScrape going back to the head of the loop after an empty page
PagScrapeNoBreak ==
  /\ pc = "pagScrape"
  /\ \E r \in NextPageOutcomes(pageType, pageCount, exhibitors) :
       IF r.throws
       THEN /\ pc' = "emit"
            /\ pagLog' = Logged( Did("scrapeThrows", <<>>))
            /\ UNCHANGED <<exhibitors, pageCount>>
       ELSE /\ exhibitors' = exhibitors \o r.list
            /\ pageCount' = IF r.list = <<>> THEN pageCount ELSE pageCount + 1
            /\ pagLog' = Logged( Did("scrape", r.list))
            /\ pc' = "pagHead"
  /\ extracted' = IF pc' = "emit" THEN exhibitors ELSE extracted
  /\ UNCHANGED <<caller, url, reqOptions, options, page, pending, pageType,
                 firstPage, paginated, without, actualSearchCount, i, trace, error,
                 response,
                 navs, lastOutcome, delayed,
                 document, resolver, shared>>

\* the adapter on the advanced page, the zero-records break, the append
PagScrape ==
  /\ pc = "pagScrape"
  /\ \E r \in NextPageOutcomes(pageType, pageCount, exhibitors) :
       IF r.throws \/ Len(r.list) = 0
       THEN /\ pc' = "emit"
            /\ pagLog' = Logged(
                           IF r.throws THEN Did("scrapeThrows", <<>>)
                           ELSE Did("scrape", <<>>))
            /\ UNCHANGED <<exhibitors, pageCount>>
       ELSE /\ exhibitors' = exhibitors \o r.list
            /\ pageCount' = pageCount + 1
            /\ pagLog' = Logged( Did("scrape", r.list))
            /\ pc' = "pagHead"
  /\ extracted' = IF pc' = "emit" THEN exhibitors ELSE extracted
  /\ UNCHANGED <<caller, url, reqOptions, options, page, pending, pageType,
                 firstPage, paginated, without, actualSearchCount, i, trace, error,
                 response,
                 navs, lastOutcome, delayed,
                 document, resolver, shared>>

----------------------------------------------------------------------------
(* Delivery of the records and website resolution *)

\* the initial emission, then either the set-up of the resolution loop or
\* the emission of the branch taken when discovery is disabled
EmitAndSetup ==
  /\ pc = "emit"
  /\ LET tr1 == EmitInitial(options, trace, exhibitors)
         wo  == WithoutWebsite(exhibitors)
         ww  == WithWebsite(exhibitors)
     IN IF FindWebsitesOn(options)
        THEN LET tr2 == onProgress(options, tr1, "summary", Len(wo)) IN
             IF Len(wo) > 0
             THEN /\ without' = wo
                  /\ actualSearchCount' = SearchCount(options, Len(wo))
                  /\ trace' = onProgress(options, tr2, "searching",
                                         SearchCount(options, Len(wo)))
                  /\ i' = 0
                  /\ pc' = "loop"
             ELSE /\ trace' = tr2
                  /\ pc' = "finally"
                  /\ UNCHANGED <<without, actualSearchCount, i>>
        ELSE /\ trace' = EmitDisabled(options, tr1, exhibitors)
             /\ pc' = "finally"
             /\ UNCHANGED <<without, actualSearchCount, i>>
  /\ pending' = IF pc' = "finally" THEN "return" ELSE pending
  /\ pagLog' = IF pagLog = NotKept THEN pagLog ELSE <<>>
  /\ UNCHANGED <<caller, url, reqOptions, options, page, pageType, exhibitors,
                 firstPage, extracted, paginated, pageCount, error, response,
                 navs, lastOutcome, delayed,
                 document, resolver, shared>>

\* for (let i = 0; i < actualSearchCount; i++): the progress event and the
\* call of findCompanyWebsite
LoopHead ==
  /\ pc = "loop"
  /\ IF i < actualSearchCount
     THEN LET k == without[i + 1] IN
          IF exhibitors[k].website = ""
          THEN /\ trace' = Append(onProgress(options, trace, "attempt", k),
                                  Ev("resolve", "call", k, ""))
               /\ pc' = "resolving"
               /\ UNCHANGED <<i, pending>>
          ELSE /\ trace' = onExhibitorFound(options, trace, exhibitors, k)
               /\ i' = i + 1
               /\ UNCHANGED <<pc, pending>>
     ELSE /\ pc' = "finally"
          /\ pending' = "return"
          /\ UNCHANGED <<i, trace>>
  /\ UNCHANGED <<caller, url, reqOptions, options, page, pageType, exhibitors,
                 firstPage, extracted, paginated, pageCount, without, actualSearchCount,
                 error, response,
                 navs, lastOutcome, delayed,
                 document, resolver, pagLog, shared>>

\* SetWebsite writing the website into every record of the list
SetWebsiteAll(ex, k, w) == [j \in 1..Len(ex) |-> [ex[j] EXCEPT !.website = w]]

SetWebsite(ex, k, w) == [ex EXCEPT ![k].website = w]

\* ResolveEnd with the record event of the catch block missing
ResolveEndSilentCatch ==
  /\ pc = "resolving"
  /\ LET k == without[i + 1] IN
     \E r \in ResolverOutcomes(exhibitors[k].companyName) :
       LET w  == IF r = "throw" THEN "" ELSE ResolverReturn(r)
           ex == SetWebsite(exhibitors, k, w)
           tr == Append(trace, Ev("resolve", "end", k, ""))
       IN /\ exhibitors' = ex
          /\ lastOutcome' = r
          /\ delayed' = FALSE
          /\ IF r = "throw"
             THEN trace' = tr /\ i' = i + 1 /\ pc' = "loop"
             ELSE /\ trace' = onExhibitorFound(options, tr, ex, k)
                  /\ pc' = "delay" /\ UNCHANGED i
  /\ UNCHANGED <<caller, url, reqOptions, options, page, pending, pageType,
                 firstPage, extracted, paginated, pageCount, without,
                 actualSearchCount, error, response, navs,
                 document, resolver, pagLog, shared>>

\* ResolveEnd with the try/catch around the call missing
ResolveEndNoCatch ==
  /\ pc = "resolving"
  /\ LET k == without[i + 1] IN
     \E r \in ResolverOutcomes(exhibitors[k].companyName) :
       LET ex == SetWebsite(exhibitors, k, ResolverReturn(r))
           tr == Append(trace, Ev("resolve", "end", k, ""))
       IN /\ lastOutcome' = r
          /\ delayed' = FALSE
          /\ IF r = "throw"
             THEN /\ Throw("resolver failed")
                  /\ trace' = tr
                  /\ UNCHANGED <<exhibitors, i>>
             ELSE /\ exhibitors' = ex
                  /\ trace' = onExhibitorFound(options, tr, ex, k)
                  /\ pc' = "delay"
                  /\ UNCHANGED <<i, pending, error>>
  /\ UNCHANGED <<caller, url, reqOptions, options, page, pageType,
                 firstPage, extracted, paginated, pageCount, without,
                 actualSearchCount, response, navs,
                 document, resolver, pagLog, shared>>

\* findCompanyWebsite returns or throws; the record event; catch
ResolveEnd ==
  /\ pc = "resolving"
  /\ LET k == without[i + 1] IN
     \E r \in ResolverOutcomes(exhibitors[k].companyName) :
       LET w  == IF r = "throw" THEN "" ELSE ResolverReturn(r)
           ex == SetWebsite(exhibitors, k, w)
       IN /\ exhibitors' = ex
          /\ lastOutcome' = r
          /\ delayed' = FALSE
          /\ trace' = onExhibitorFound(options,
                         Append(trace, Ev("resolve", "end", k, "")), ex, k)
          /\ IF r = "throw"
             THEN i' = i + 1 /\ pc' = "loop"
             ELSE pc' = "delay" /\ UNCHANGED i
  /\ UNCHANGED <<caller, url, reqOptions, options, page, pending, pageType,
                 firstPage, extracted, paginated, pageCount, without, actualSearchCount,
                 error, response, navs,
                 document, resolver, pagLog, shared>>

\* await delay(300)
Delay ==
  /\ pc = "delay"
  /\ delayed' = TRUE
  /\ i' = i + 1
  /\ pc' = "loop"
  /\ UNCHANGED <<caller, url, reqOptions, options, page, pending, pageType,
                 exhibitors, firstPage, extracted, paginated, pageCount, without,
                 actualSearchCount, trace, error, response, navs, lastOutcome,
                 document, resolver, pagLog, shared>>

\* Finally with the try/catch around page.close() missing
FinallyNoCatch ==
  /\ pc = "finally"
  /\ \E closeOk \in BOOLEAN :
       /\ page' = IF page = "open"
                  THEN (IF closeOk THEN "closed" ELSE "closeFailed")
                  ELSE page
       /\ IF page = "open" /\ ~closeOk
          THEN pc' = "thrown" /\ error' = "close failed"
          ELSE /\ pc' = IF pending = "return" THEN "returned" ELSE "thrown"
               /\ UNCHANGED error
  /\ UNCHANGED <<caller, url, reqOptions, options, pending, pageType,
                 exhibitors, firstPage, extracted, paginated, pageCount, without,
                 actualSearchCount, i, trace, response,
                 navs, lastOutcome, delayed,
                 document, resolver, pagLog, shared>>

\* finally { if (page) await page.close() }: a failing close is swallowed
Finally ==
  /\ pc = "finally"
  /\ \E closeOk \in BOOLEAN :
       page' = IF page = "open"
               THEN (IF closeOk THEN "closed" ELSE "closeFailed")
               ELSE page
  /\ pc' = IF pending = "return" THEN "returned" ELSE "thrown"
  /\ UNCHANGED <<caller, url, reqOptions, options, pending, pageType,
                 exhibitors, firstPage, extracted, paginated, pageCount, without,
                 actualSearchCount, i, trace, error, response,
                 navs, lastOutcome, delayed,
                 document, resolver, pagLog, shared>>

----------------------------------------------------------------------------
(* The caller gets the result *)

CompleteEvent(results) == Ev("complete", "", Len(results), "")

\* complete or error, then res.end()
StreamFinish ==
  /\ caller = "stream"
  /\ pc \in {"returned", "thrown"}
  /\ trace' = Append(trace, IF pc = "returned" THEN CompleteEvent(exhibitors)
                            ELSE Ev("error", error, 0, ""))
  /\ pc' = "done"
  /\ UNCHANGED <<caller, url, reqOptions, options, sessionVars, response>>

\* res.json({success: true, ...}) or res.status(500).json({success: false})
JsonFinish ==
  /\ caller = "json"
  /\ pc \in {"returned", "thrown"}
  /\ response' = IF pc = "returned"
                 THEN [status |-> 200, success |-> TRUE, data |-> exhibitors,
                       count |-> Len(exhibitors)]
                 ELSE [status |-> 500, success |-> FALSE, error |-> error]
  /\ pc' = "done"
  /\ UNCHANGED <<caller, url, reqOptions, options, sessionVars, trace>>

\* the direct caller's await resolves or rejects
DirectFinish ==
  /\ caller = "direct"
  /\ pc \in {"returned", "thrown"}
  /\ pc' = "done"
  /\ UNCHANGED <<caller, url, reqOptions, options, sessionVars, trace,
                 response>>

Next ==
  \/ StreamRequest
  \/ JsonRequest
  \/ DirectRequest
  \/ ValidateUrl
  \/ AcquireBrowser
  \/ NewPage
  \/ Goto
  \/ GotoRetry
  \/ Extract
  \/ PagHead
  \/ PagScrape
  \/ EmitAndSetup
  \/ LoopHead
  \/ ResolveEnd
  \/ Delay
  \/ Finally
  \/ StreamFinish
  \/ JsonFinish
  \/ DirectFinish

Spec == Init /\ [][Next]_vars

----------------------------------------------------------------------------
(* handlePagination on its own, for every template, under weak fairness:  *)
(* every await of the loop is bounded by a timeout, so a started pass     *)
(* always finishes                                                          *)

TemplateUrls ==
  {UrlOf(<<"x", ".">> \o pat \o <<"/", "e">>) :
     pat \in {PatManifest, PatMapYourShow, PatA2Z, PatSmallWorldLabs,
              PatAffiliateSummit, PatGoeShow, PatWpma, PatSurfExpo,
              <<"e", "x", ".", "c", "o", "m">>}}

PagInit ==
  /\ caller = "direct"
  /\ url \in TemplateUrls
  /\ reqOptions = [handlePagination |-> TRUE]
  /\ options = [handlePagination |-> TRUE]
  /\ pc = "pagHead"
  /\ page = "open"
  /\ pending = "none"
  /\ pageType = detectPageType(url.s)
  /\ exhibitors \in PageLists(pageType) \cup {TailPage(pageType, 1)}
  /\ firstPage = exhibitors
  /\ extracted = exhibitors
  /\ paginated = TRUE
  /\ pageCount = 0
  /\ without = <<>>
  /\ actualSearchCount = 0
  /\ i = 0
  /\ trace = <<>>
  /\ error = ""
  /\ response = NoResponse
  /\ navs = <<Nav("networkidle2", TRUE)>>
  /\ lastOutcome = ""
  /\ delayed = FALSE
  /\ document = <<>>
  /\ resolver = IdleResolver
  /\ pagLog = <<>>
  /\ shared = NoCalls

PagNext == PagHead \/ PagScrape

PaginationSpec == PagInit /\ [][PagNext]_vars /\ WF_vars(PagNext)

----------------------------------------------------------------------------
(* Properties *)

\* the events written to the response (the callbacks invoked), in order
Written == SelectSeq(trace, LAMBDA e : e.type # "resolve")

Terminal == {"complete", "error"}

Positions(seq, t) == {k \in 1..Len(seq) : seq[k].type = t}

\* scrapeExhibitors has returned its list
SessionReturned == pending = "return" /\ pc \in {"returned", "done"}

\* C1: a streaming response starts with exactly one connected event; a
\* start event is the second event and no progress or exhibitor event comes
\* without it; a complete or error event is the last event written, there
\* is at most one, and the ended response has one.
C1_StreamShape ==
  (caller = "stream" /\ pc # "request") =>
    LET ev == Written IN
    /\ Len(ev) >= 1
    /\ Positions(ev, "connected") = {1}
    /\ Positions(ev, "start") \subseteq {2}
    /\ \A k \in Positions(ev, "progress") \cup Positions(ev, "exhibitor") :
         k > 2 /\ ev[2].type = "start"
    /\ \A k \in 1..Len(ev) :
         ev[k].type \in Terminal => (k = Len(ev) /\ pc = "done")
    /\ pc = "done" => ev[Len(ev)].type \in Terminal

C1_Witness ==
  /\ caller = "stream" /\ pc = "done"
  /\ Written[Len(Written)].type = "complete"
  /\ Positions(Written, "progress") # {}
  /\ Positions(Written, "exhibitor") # {}

\* C2 as stated: in a streaming response no progress event is written after
\* an exhibitor event.
C2_ProgressBeforeExhibitors ==
  caller = "stream" =>
    \A a \in Positions(Written, "exhibitor") :
      \A b \in Positions(Written, "progress") : b < a

\* C2 amended: in a streaming response the exhibitor events written before
\* the first progress event carry records that came out of extraction with
\* a website; from the first progress event on, every exhibitor event comes
\* directly after the progress event of its own resolution attempt; with
\* findWebsites false no progress event is written.
C2_Interleaved ==
  (caller = "stream" /\ pc # "request") =>
    LET ev == Written
        pr == Positions(ev, "progress")
    IN /\ \A a \in Positions(ev, "exhibitor") :
            IF \E b \in pr : b < a
            THEN ev[a - 1] = Ev("progress", "attempt", ev[a].idx, "")
            ELSE pr # {} => extracted[ev[a].idx].website # ""
       /\ ~FindWebsitesOn(options) => pr = {}

C2_Witness ==
  /\ caller = "stream" /\ pc = "done"
  /\ \E a, c \in Positions(Written, "exhibitor") :
       \E b \in Positions(Written, "progress") :
         a < b /\ b < c /\ Written[b].phase = "attempt"

\* the record events delivered for the record at index k
Deliveries(k) == {p \in Positions(trace, "exhibitor") : trace[p].idx = k}

ResolveCalls ==
  SelectSeq(trace, LAMBDA e : e.type = "resolve" /\ e.phase = "call")

\* C3 as stated: with findWebsites false and a record callback, when the
\* session has returned each record of the list has been delivered exactly
\* once, in list order, and no resolver call was made.
C3_EmittedOnce ==
  (SessionReturned /\ ~FindWebsitesOn(options)
     /\ Has(options, "onExhibitorFound")) =>
    /\ SelectSeq(trace, LAMBDA e : e.type = "exhibitor")
         = [k \in 1..Len(exhibitors) |->
              Ev("exhibitor", "", k, exhibitors[k].website)]
    /\ ResolveCalls = <<>>

PageCap(pt) ==
  IF pt = "smallworldlabs" THEN SmallWorldMaxPages
  ELSE IF pt = "manifest" THEN ManifestMaxPages
  ELSE DefaultMaxPages

\* C4: handlePagination returns in every run, and the number of successful
\* advances never exceeds the template's page cap (100 for smallworldlabs,
\* 20 for manifest, 5 for every other template).
C4_PaginationTerminates ==
  /\ <>(pc = "emit")
  /\ [](pageCount <= PageCap(pageType))

C4_Witness ==
  /\ pc = "emit"
  /\ pageCount = PageCap(pageType)
  /\ Len(exhibitors) > PageCap(pageType)

\* the session is past the pagination decision
PastExtraction ==
  pc \in {"pagHead", "pagScrape", "emit", "loop", "resolving", "delay"}
    \/ SessionReturned \/ (pc = "finally" /\ pending = "return")

\* C5: handlePagination runs exactly when the page type is smallworldlabs
\* and options.handlePagination is not false, or the page type is another
\* template and options.handlePagination is true; otherwise the first-page
\* records are the extraction result.
C5_PaginationPolicy ==
  PastExtraction =>
    /\ paginated <=>
         \/ /\ pageType = "smallworldlabs"
            /\ ~(Has(options, "handlePagination")
                   /\ options.handlePagination = FALSE)
         \/ /\ pageType # "smallworldlabs"
            /\ Has(options, "handlePagination")
            /\ options.handlePagination = TRUE
    /\ ~paginated => (pageCount = 0 /\ extracted = firstPage)
    /\ (pageCount > 0 \/ pc \in {"pagHead", "pagScrape"}) => paginated

C5_Witness ==
  /\ SessionReturned
  /\ pageType = "smallworldlabs"
  /\ ~Has(options, "handlePagination")
  /\ paginated /\ pageCount > 0

\* C6 as stated: a POST /scrape request for a smallworldlabs URL whose
\* options carry no handlePagination starts a session that paginates, and
\* such a session skips pagination only when the request sets
\* handlePagination to false.
C6_HttpSmallWorldPaginates ==
  (caller \in {"stream", "json"} /\ PastExtraction
     /\ pageType = "smallworldlabs") =>
    /\ ~Has(reqOptions, "handlePagination") => paginated
    /\ ~paginated =>
         (Has(reqOptions, "handlePagination")
            /\ reqOptions.handlePagination = FALSE)

\* the indices the resolver was called for, in call order
CalledIdx == [k \in 1..Len(ResolveCalls) |-> ResolveCalls[k].idx]

\* C7: the resolver is called only for records whose website is empty when
\* it is called, in list order and at most once per record; a returned
\* session has made min(maxWebsiteSearches, records without a website)
\* calls, all of those records when maxWebsiteSearches is not given; no
\* call is made when findWebsites is false.
C7_ResolverCalls ==
  LET calls == CalledIdx IN
  /\ \A a, b \in 1..Len(calls) : a < b => calls[a] < calls[b]
  /\ \A a \in 1..Len(calls) : extracted[calls[a]].website = ""
  /\ pc = "resolving" => exhibitors[calls[Len(calls)]].website = ""
  /\ ~FindWebsitesOn(options) => calls = <<>>
  /\ (SessionReturned /\ FindWebsitesOn(options)) =>
       LET n == Len(WithoutWebsite(extracted)) IN
       Len(calls) = IF Has(options, "maxWebsiteSearches")
                    THEN Min(options.maxWebsiteSearches, n)
                    ELSE n

C7_Witness ==
  /\ SessionReturned
  /\ Has(options, "maxWebsiteSearches")
  /\ Len(CalledIdx) = options.maxWebsiteSearches
  /\ Len(CalledIdx) > 0
  /\ Len(WithoutWebsite(extracted)) > Len(CalledIdx)

\* C8: around every resolver call the trace reads: the progress event of
\* that company (when a progress callback is supplied), the call, its end,
\* one record event for that record (when a record callback is supplied),
\* and no second record event before the next attempt.
C8_AttemptEvents ==
  \A p \in 1..Len(trace) :
    (trace[p].type = "resolve" /\ trace[p].phase = "call") =>
      LET k == trace[p].idx
          q == IF Has(options, "onExhibitorFound") THEN p + 2 ELSE p + 1
      IN /\ Has(options, "onProgress") =>
              (p > 1 /\ trace[p - 1] = Ev("progress", "attempt", k, ""))
         /\ p + 1 <= Len(trace) =>
              /\ trace[p + 1] = Ev("resolve", "end", k, "")
              /\ Has(options, "onExhibitorFound") =>
                   /\ p + 2 <= Len(trace)
                   /\ trace[p + 2]
                        = Ev("exhibitor", "", k, exhibitors[k].website)
              /\ q + 1 <= Len(trace) => trace[q + 1].type # "exhibitor"

C8_Witness ==
  /\ SessionReturned
  /\ Has(options, "onProgress") /\ Has(options, "onExhibitorFound")
  /\ Len(ResolveCalls) >= 2
  /\ \E k \in 1..Len(exhibitors) :
       /\ exhibitors[k].website = FoundUrl
       /\ Deliveries(k) # {}

\* the position of the first resolver call in the trace, Len(trace) + 1 if
\* there is none
FirstResolve ==
  LET ps == Positions(trace, "resolve") IN
  IF ps = {} THEN Len(trace) + 1
  ELSE CHOOSE p \in ps : \A q \in ps : p <= q

IdxOf(seq) == [k \in 1..Len(seq) |-> seq[k].idx]

\* C9: with findWebsites enabled and a record callback, once the initial
\* emission is done the record events before the first resolver call are
\* those of the records that came out of extraction with a website, one
\* each, and no later record event is for such a record.
C9_WithWebsiteFirst ==
  (FindWebsitesOn(options) /\ Has(options, "onExhibitorFound")
     /\ (pc \in {"loop", "resolving", "delay"} \/ SessionReturned)) =>
    LET r      == FirstResolve
        before == SelectSeq(SubSeq(trace, 1, r - 1),
                            LAMBDA e : e.type = "exhibitor")
        after  == SelectSeq(SubSeq(trace, r, Len(trace)),
                            LAMBDA e : e.type = "exhibitor")
    IN /\ IdxOf(before) = WithWebsite(extracted)
       /\ \A k \in 1..Len(after) : extracted[after[k].idx].website = ""

C9_Witness ==
  /\ SessionReturned
  /\ FindWebsitesOn(options) /\ Has(options, "onExhibitorFound")
  /\ Len(ResolveCalls) > 0
  /\ \E k \in 1..Len(extracted) :
       extracted[k].website # "" /\ k > CalledIdx[1]

FatalErrors ==
  {"Invalid URL provided", "Failed to launch browser", "newPage failed",
   "setUserAgent failed", "navigation failed"}

\* C10 as stated: scrapeExhibitors throws only for an invalid URL, a
\* context-acquisition failure or a navigation failure; a session that
\* completed initial navigation returns a record list.
C10_OnlyNavigationFatal ==
  pending = "throw" => error \in FatalErrors

ResolveEnds ==
  SelectSeq(trace, LAMBDA e : e.type = "resolve" /\ e.phase = "end")

\* C11: when the latest resolver call threw or found nothing, the record's
\* website is the empty string, the record has been delivered with that
\* website as the latest record event (when a record callback is supplied),
\* and the loop is at the next company; the session never aborts once
\* resolution has begun, a returned session has made every planned call, and
\* its stream ends with the complete event.
C11_ResolverFailureTolerated ==
  LET ends == ResolveEnds IN
  /\ Len(ends) > 0 => pending # "throw"
  /\ (lastOutcome \in {"none", "throw"} /\ pc # "resolving") =>
       LET k == ends[Len(ends)].idx IN
       /\ exhibitors[k].website = ""
       /\ Has(options, "onExhibitorFound") =>
            \E p \in Deliveries(k) :
              /\ trace[p].website = ""
              /\ \A q \in (p + 1)..Len(trace) : trace[q].type # "exhibitor"
       /\ pc = "delay" => without[i + 1] = k
       /\ pc = "loop" => (i = Len(ends) /\ without[i] = k)
  /\ (SessionReturned /\ FindWebsitesOn(options)) =>
       Len(ends) = actualSearchCount
  /\ (caller = "stream" /\ pc = "done" /\ Len(ends) > 0) =>
       trace[Len(trace)] = CompleteEvent(exhibitors)

\* a session of at least two resolver calls, none of which found a website,
\* has completed its stream and wrote a progress event after a failed call
C11_Witness ==
  /\ caller = "stream" /\ pc = "done"
  /\ Len(ResolveEnds) >= 2
  /\ lastOutcome = "none"
  /\ \A k \in 1..Len(exhibitors) : exhibitors[k].website # FoundUrl
  /\ \E p \in 1..Len(trace) :
       /\ trace[p].type = "resolve" /\ trace[p].phase = "end"
       /\ p + 2 <= Len(trace)
       /\ trace[p + 2].type = "progress"

\* both page.goto calls of the session failed
BothNavigationsFailed == Len(navs) = 2 /\ ~navs[1].ok /\ ~navs[2].ok

\* C12: a session calls page.goto at most twice, first with networkidle2,
\* then once with domcontentloaded and only if the first call failed; once
\* navigation is over, the session has aborted with the navigation error
\* exactly when both calls failed, and then no adapter ran and no progress
\* or record event was emitted; an adapter runs only after a call that
\* succeeded.
C12_NavigationRetry ==
  /\ Len(navs) <= 2
  /\ Len(navs) >= 1 => navs[1].wait = "networkidle2"
  /\ Len(navs) = 2 => (navs[2].wait = "domcontentloaded" /\ ~navs[1].ok)
  /\ pc = "gotoRetry" => (Len(navs) = 1 /\ ~navs[1].ok)
  /\ (Len(navs) > 0 /\ pc \notin {"goto", "gotoRetry"}) =>
       (BothNavigationsFailed
          <=> (pending = "throw" /\ error = "navigation failed"))
  /\ BothNavigationsFailed =>
       /\ pageType = "" /\ firstPage = <<>> /\ exhibitors = <<>>
       /\ Positions(trace, "progress") = {}
       /\ Positions(trace, "exhibitor") = {}
       /\ Positions(trace, "resolve") = {}
  /\ pageType # "" => (Len(navs) > 0 /\ navs[Len(navs)].ok)

\* a streaming session whose two navigation attempts failed has ended with
\* the error event right after start
C12_Witness ==
  /\ caller = "stream" /\ pc = "done"
  /\ BothNavigationsFailed
  /\ Len(trace) = 3
  /\ trace[3] = Ev("error", "navigation failed", 0, "")

\* C13 as stated: at most one resolver call is in progress at any time,
\* and when a resolver call starts after an earlier one has ended, the
\* inter-attempt delay has elapsed since that end, also when the earlier
\* call failed.
C13_SerializedWithDelay ==
  /\ Len(ResolveCalls) - Len(ResolveEnds) \in {0, 1}
  /\ (pc = "resolving") <=> (Len(ResolveCalls) = Len(ResolveEnds) + 1)
  /\ (pc = "resolving" /\ Len(ResolveEnds) > 0) => delayed

----------------------------------------------------------------------------
(* detectPageType on its own, over URLs built from the host patterns and    *)
(* from strings that come close to them                                     *)

MaxUrlParts == 2   \* fragments a URL of ClassifyUrls is built from, at most

Fragments ==
  {PatManifest, PatMapYourShow, PatA2Z, PatSmallWorldLabs, PatAffiliateSummit,
   PatGoeShow, PatWpma, PatSurfExpo,
   <<"e", "x", ".", "c", "o", "m">>,
   <<"m", "a", "n", "i", "f", "e", "s", "t">>,
   <<"W", "P", "M", "A", ".", "C", "O", "M">>,
   <<"w", "p", "m", "a", ".", "c", "o">>}

RECURSIVE UrlsOf(_)
UrlsOf(n) ==
  IF n = 0 THEN {<<>>}
  ELSE {<<"/">> \o f \o r : f \in Fragments, r \in UrlsOf(n - 1)}

ClassifyUrls == UNION {UrlsOf(n) : n \in 1..MaxUrlParts}

ClassifyInit ==
  /\ caller = "direct"
  /\ url \in {UrlOf(u) : u \in ClassifyUrls}
  /\ reqOptions = NoOptions
  /\ options = NoOptions
  /\ pc = "classify"
  /\ page = "open"
  /\ pending = "none"
  /\ pageType = ""
  /\ exhibitors = <<>>
  /\ firstPage = <<>>
  /\ extracted = <<>>
  /\ paginated = FALSE
  /\ pageCount = 0
  /\ without = <<>>
  /\ actualSearchCount = 0
  /\ i = 0
  /\ trace = <<>>
  /\ error = ""
  /\ response = NoResponse
  /\ navs = <<Nav("networkidle2", TRUE)>>
  /\ lastOutcome = ""
  /\ delayed = FALSE
  /\ document = <<>>
  /\ resolver = IdleResolver
  /\ pagLog = <<>>
  /\ shared = NoCalls

\* const pageType = detectPageType(url)
Classify ==
  /\ pc = "classify"
  /\ pageType' = detectPageType(url.s)
  /\ pc' = "classified"
  /\ UNCHANGED <<caller, url, reqOptions, options, page, pending, exhibitors,
                 firstPage, extracted, paginated, pageCount, without,
                 actualSearchCount, i, trace, error, response, navs,
                 lastOutcome, delayed,
                 document, resolver, pagLog, shared>>

ClassifySpec == ClassifyInit /\ [][Classify]_vars

\* the host-pattern table of the classifier, in its order
PatternTable ==
  <<[pat |-> PatManifest, tag |-> "manifest"],
    [pat |-> PatMapYourShow, tag |-> "mapyourshow"],
    [pat |-> PatA2Z, tag |-> "a2z"],
    [pat |-> PatSmallWorldLabs, tag |-> "smallworldlabs"],
    [pat |-> PatAffiliateSummit, tag |-> "affiliatesummit"],
    [pat |-> PatGoeShow, tag |-> "goeshow"],
    [pat |-> PatWpma, tag |-> "wpma"],
    [pat |-> PatSurfExpo, tag |-> "surfexpo"]>>

\* the table rows whose pattern occurs in u at some position
Hits(u) ==
  {k \in 1..Len(PatternTable) :
     \E p \in 1..Len(u) :
       /\ p + Len(PatternTable[k].pat) - 1 <= Len(u)
       /\ \A q \in 1..Len(PatternTable[k].pat) :
            u[p + q - 1] = PatternTable[k].pat[q]}

\* C14: the tag detectPageType gives a URL is the tag of the first row of
\* the pattern table (manife.st, mapyourshow.com, a2zinc.net,
\* smallworldlabs.com, affiliatesummit.com, goeshow.com, wpma.com,
\* surfexpo.com) whose pattern occurs in the URL, and generic when none
\* occurs; the tag is a function of the URL alone.
C14_FirstMatchWins ==
  pc = "classified" =>
    LET h == Hits(url.s) IN
    IF h = {} THEN pageType = "generic"
    ELSE \E k \in h :
           /\ \A j \in h : k <= j
           /\ pageType = PatternTable[k].tag

\* a URL holding two patterns, the later one of the table first, is
\* classified by the earlier row
C14_Witness ==
  /\ pc = "classified"
  /\ Cardinality(Hits(url.s)) = 2
  /\ pageType = "manifest"
  /\ SubSeq(url.s, 2, 1 + Len(PatSurfExpo)) = PatSurfExpo

----------------------------------------------------------------------------
(* Text helpers of the adapters: JavaScript strings are sequences of        *)
(* characters                                                               *)

UpperLetters ==
  <<"A","B","C","D","E","F","G","H","I","J","K","L","M",
    "N","O","P","Q","R","S","T","U","V","W","X","Y","Z">>
LowerLetters ==
  <<"a","b","c","d","e","f","g","h","i","j","k","l","m",
    "n","o","p","q","r","s","t","u","v","w","x","y","z">>
Digits == {"0","1","2","3","4","5","6","7","8","9"}

IsUpper(c) == \E k \in 1..26 : UpperLetters[k] = c

LowerChar(c) ==
  IF IsUpper(c)
  THEN LowerLetters[CHOOSE k \in 1..26 : UpperLetters[k] = c]
  ELSE c

\* String.prototype.toLowerCase
ToLower(s) == [k \in 1..Len(s) |-> LowerChar(s[k])]

\* String.prototype.startsWith
StartsWith(s, pat) == Len(s) >= Len(pat) /\ SubSeq(s, 1, Len(pat)) = pat

IsSpace(c) == c = " "

\* s without its leading whitespace
TrimLeft(s) ==
  IF \A k \in 1..Len(s) : IsSpace(s[k]) THEN <<>>
  ELSE SubSeq(s, CHOOSE k \in 1..Len(s) :
                   ~IsSpace(s[k]) /\ \A j \in 1..(k - 1) : IsSpace(s[j]),
              Len(s))

\* s without its trailing whitespace
TrimRight(s) ==
  IF \A k \in 1..Len(s) : IsSpace(s[k]) THEN <<>>
  ELSE SubSeq(s, 1, CHOOSE k \in 1..Len(s) :
                      ~IsSpace(s[k]) /\ \A j \in (k + 1)..Len(s) : IsSpace(s[j]))

\* String.prototype.trim
Trim(s) == TrimRight(TrimLeft(s))

\* s.replace(pat, ''): the first occurrence of pat removed
RemoveFirst(s, pat) ==
  IF Includes(s, pat)
  THEN LET k == CHOOSE a \in 1..Len(s) :
                  /\ a + Len(pat) - 1 <= Len(s)
                  /\ SubSeq(s, a, a + Len(pat) - 1) = pat
                  /\ \A b \in 1..(a - 1) :
                       SubSeq(s, b, b + Len(pat) - 1) # pat
       IN SubSeq(s, 1, k - 1) \o SubSeq(s, k + Len(pat), Len(s))
  ELSE s

\* /^\d+$/
IsDigits(s) == s # <<>> /\ \A k \in 1..Len(s) : s[k] \in Digits

HttpScheme  == <<"h", "t", "t", "p", ":", "/", "/">>
HttpsScheme == <<"h", "t", "t", "p", "s", ":", "/", "/">>

IsHttp(href) == StartsWith(href, HttpScheme) \/ StartsWith(href, HttpsScheme)

\* new URL(href).hostname of an absolute http(s) URL without port or
\* credentials: the characters between the scheme and the next "/", in
\* lower case
Hostname(href) ==
  LET rest == IF StartsWith(href, HttpsScheme)
              THEN SubSeq(href, Len(HttpsScheme) + 1, Len(href))
              ELSE SubSeq(href, Len(HttpScheme) + 1, Len(href))
      ends == {k \in 1..Len(rest) : rest[k] = "/"}
      stop == IF ends = {} THEN Len(rest) + 1
              ELSE CHOOSE k \in ends : \A j \in ends : k <= j
  IN ToLower(SubSeq(rest, 1, stop - 1))

DomMapYourShow     == PatMapYourShow
DomA2Z             == PatA2Z
DomSmallWorldLabs  == PatSmallWorldLabs
DomAffiliateSummit == PatAffiliateSummit
DomGoeShow         == PatGoeShow
DomManifest        == PatManifest
DomEventMapLower   == <<"e", "v", "e", "n", "t", "m", "a", "p">>
DomEventMap        == <<"E", "v", "e", "n", "t", "M", "a", "p">>

DomFacebook  == <<"f", "a", "c", "e", "b", "o", "o", "k", ".", "c", "o", "m">>
DomTwitter   == <<"t", "w", "i", "t", "t", "e", "r", ".", "c", "o", "m">>
DomLinkedIn  == <<"l", "i", "n", "k", "e", "d", "i", "n", ".", "c", "o", "m">>
DomInstagram == <<"i", "n", "s", "t", "a", "g", "r", "a", "m", ".", "c", "o", "m">>
DomYouTube   == <<"y", "o", "u", "t", "u", "b", "e", ".", "c", "o", "m">>
DomPinterest == <<"p", "i", "n", "t", "e", "r", "e", "s", "t", ".", "c", "o", "m">>
DomTikTok    == <<"t", "i", "k", "t", "o", "k", ".", "c", "o", "m">>

\* const socialDomains = [...] of scrapeMapYourShow and scrapeGeneric
SocialDomains ==
  {DomFacebook, DomTwitter, DomLinkedIn, DomInstagram, DomYouTube}

TldCom == <<".", "c", "o", "m">>
TldNet == <<".", "n", "e", "t">>
TldOrg == <<".", "o", "r", "g">>
TldIo  == <<".", "i", "o">>
TldCo  == <<".", "c", "o">>
Www    == <<"w", "w", "w", ".">>
Http   == <<"h", "t", "t", "p">>

\* the first element of seq that satisfies Test, <<>> if there is none
FirstWhere(seq, Test(_)) ==
  LET hits == SelectSeq(seq, Test) IN
  IF hits = <<>> THEN <<>> ELSE Head(hits)

----------------------------------------------------------------------------
(* The extraction adapters as functions of the candidate elements of the    *)
(* rendered page.  An element is what the adapter's selectors matched, in   *)
(* document order: its text, its booth id or category, the href attributes  *)
(* of the links inside it, (manifest, surfexpo) its innerHTML, and its       *)
(* position among the candidates.                                           *)

El(name, group, links, html) ==
  [name |-> name, group |-> group, links |-> links, html |-> html, at |-> 0]

\* a record as the adapters build it; booth is a string here, and holds the
\* category on surfexpo records; from is the element the record was built
\* from
AdapterRec(n, w, pt, booth, el) ==
  [companyName |-> n, website |-> w, source |-> pt, booth |-> booth,
   from |-> el.at]

HostHasTld(host) ==
  Includes(host, TldCom) \/ Includes(host, TldNet) \/ Includes(host, TldOrg)

\* the link loop of scrapeMapYourShow, for links whose text carries no
\* website indicator
MapYourShowWebsite(el) ==
  LET ok(h) ==
        /\ IsHttp(h)
        /\ ~Includes(Hostname(h), DomMapYourShow)
        /\ ~Includes(Hostname(h), DomEventMapLower)
        /\ \A d \in SocialDomains : ~Includes(Hostname(h), d)
        /\ HostHasTld(Hostname(h))
  IN FirstWhere(el.links, ok)

\* el.querySelector('a[href*="http"]:not([href*="a2zinc.net"])
\* :not([href*="EventMap"])') and the hostname check that follows
A2ZWebsite(el) ==
  LET ok(h) == /\ Includes(h, Http)
               /\ ~Includes(h, DomA2Z)
               /\ ~Includes(h, DomEventMap)
      w == FirstWhere(el.links, ok)
  IN IF w = <<>> \/ ~IsHttp(w) THEN <<>>
     ELSE IF Includes(Hostname(w), DomA2Z)
               \/ Includes(Hostname(w), DomEventMapLower)
     THEN <<>> ELSE w

\* the row-link loop of scrapeSmallWorldLabs
SmallWorldLabsWebsite(el) ==
  LET ok(h) == /\ StartsWith(h, Http)
               /\ ~Includes(h, DomA2Z)
               /\ ~Includes(h, DomSmallWorldLabs)
               /\ ~Includes(h, DomEventMap)
  IN FirstWhere(el.links, ok)

\* item.querySelector('a[href*="http"]')?.href || ''
FirstHttpLink(el) ==
  LET ok(h) == Includes(h, Http) IN FirstWhere(el.links, ok)

\* const skipDomains = [...] of scrapeGeneric
GenericSkipDomains ==
  {DomMapYourShow, DomA2Z, DomSmallWorldLabs, DomAffiliateSummit, DomGoeShow,
   DomManifest, DomEventMapLower}

\* isExternalWebsite(href) of scrapeGeneric, currentDomain being the host of
\* the page
isExternalWebsite(href, currentDomain) ==
  IF href = <<>> \/ ~StartsWith(href, Http) THEN FALSE
  ELSE IF ~IsHttp(href) THEN FALSE
  ELSE LET hostname == RemoveFirst(Hostname(href), Www) IN
       /\ hostname # currentDomain
       /\ \A d \in GenericSkipDomains : ~Includes(hostname, d)
       /\ \A d \in SocialDomains : ~Includes(hostname, d)
       /\ \/ Includes(hostname, TldCom) \/ Includes(hostname, TldNet)
          \/ Includes(hostname, TldOrg) \/ Includes(hostname, TldIo)
          \/ Includes(hostname, TldCo)

\* the link of a candidate of scrapeGeneric after the filter
GenericWebsite(el, currentDomain) ==
  LET link == FirstHttpLink(el) IN
  IF isExternalWebsite(link, currentDomain) THEN link ELSE <<>>

\* /^Booth\s*#?\d+$/i
MatchesBoothLabel(s) ==
  LET l    == ToLower(s)
      word == <<"b", "o", "o", "t", "h">>
  IN /\ StartsWith(l, word)
     /\ LET r1 == TrimLeft(SubSeq(l, Len(word) + 1, Len(l)))
            r2 == IF r1 # <<>> /\ Head(r1) = "#" THEN Tail(r1) ELSE r1
        IN IsDigits(r2)

WordExplore == <<"e", "x", "p", "l", "o", "r", "e">>
WordName    == <<"n", "a", "m", "e">>

\* the name test of scrapeSmallWorldLabs, without the seen test
SmallWorldLabsNameOk(name) ==
  /\ Len(name) > 1
  /\ Len(name) < 200
  /\ ~MatchesBoothLabel(name)
  /\ ~IsDigits(name)
  /\ ToLower(name) # WordExplore
  /\ ToLower(name) # WordName

\* const skipNames = [...] of scrapeWPMA
WpmaSkipNames ==
  {<<"h", "o", "l", "d">>,
   <<"b", "e", "e", "r", " ", "g", "a", "r", "d", "e", "n">>,
   <<"e", "x", "h", "i", "b", "i", "t", "o", "r", " ", "s", "e", "r", "v", "i", "c", "e", "s">>,
   <<"i", "n", " ", "o", "u", "r", " ", "b", "a", "c", "k", "y", "a", "r", "d">>,
   <<"l", "e", "o", "n", "a", "r", "d", " ", "p", "e", "t", "r", "o", "l", "e", "u", "m">>}

\* const filterWords = [...] of scrapeGeneric
GenericFilterWords ==
  {<<"v", "i", "e", "w">>,
   <<"m", "o", "r", "e">>,
   <<"d", "e", "t", "a", "i", "l", "s">>,
   <<"c", "l", "i", "c", "k">>,
   <<"r", "e", "a", "d">>,
   <<"l", "e", "a", "r", "n">>,
   <<"s", "e", "e">>,
   <<"s", "h", "o", "w">>,
   <<"a", "l", "l">>,
   <<"n", "e", "x", "t">>,
   <<"p", "r", "e", "v", "i", "o", "u", "s">>,
   <<"p", "a", "g", "e">>,
   <<"h", "o", "m", "e">>,
   <<"a", "b", "o", "u", "t">>,
   <<"c", "o", "n", "t", "a", "c", "t">>,
   <<"l", "o", "g", "i", "n">>,
   <<"r", "e", "g", "i", "s", "t", "e", "r">>,
   <<"s", "e", "a", "r", "c", "h">>,
   <<"f", "i", "l", "t", "e", "r">>,
   <<"s", "o", "r", "t">>}

\* /^[\d\s-()]+$/
IsDigitsAndSymbols(s) ==
  s # <<>> /\ \A k \in 1..Len(s) :
                s[k] \in Digits \cup {" ", "-", "(", ")"}

RECURSIVE CollapseSpaces(_)
\* text.replace(/\s+/g, ' ')
CollapseSpaces(s) ==
  IF Len(s) < 2 THEN s
  ELSE IF IsSpace(s[1]) /\ IsSpace(s[2]) THEN CollapseSpaces(Tail(s))
  ELSE <<Head(s)>> \o CollapseSpaces(Tail(s))

\* the length of the <br>, <br/> or <br /> tag s starts with, 0 if none
BrLen(s) ==
  IF Len(s) >= 4 /\ s[1] = "<" /\ LowerChar(s[2]) = "b"
       /\ LowerChar(s[3]) = "r"
  THEN LET rest == SubSeq(s, 4, Len(s))
           r1   == TrimLeft(rest)
           r2   == IF r1 # <<>> /\ Head(r1) = "/" THEN Tail(r1) ELSE r1
       IN IF r2 # <<>> /\ Head(r2) = ">"
          THEN Len(s) - Len(r2) + 1 ELSE 0
  ELSE 0

\* the position of the first character c of s, 0 if there is none
IndexOf(s, c) ==
  IF \A k \in 1..Len(s) : s[k] # c THEN 0
  ELSE CHOOSE k \in 1..Len(s) : s[k] = c /\ \A j \in 1..(k - 1) : s[j] # c

RECURSIVE SplitBrFrom(_, _)
\* the pieces of s, cur being the piece under construction
SplitBrFrom(s, cur) ==
  LET k == IndexOf(s, "<") IN
  IF k = 0 THEN <<cur \o s>>
  ELSE LET tag == BrLen(SubSeq(s, k, Len(s))) IN
       IF tag > 0
       THEN <<cur \o SubSeq(s, 1, k - 1)>>
              \o SplitBrFrom(SubSeq(s, k + tag, Len(s)), <<>>)
       ELSE SplitBrFrom(SubSeq(s, k + 1, Len(s)), cur \o SubSeq(s, 1, k))

\* html.split(/<br\s*\/?>/i)
SplitBr(html) == SplitBrFrom(html, <<>>)

RECURSIVE StripTags(_)
\* tempDiv.innerHTML = text; tempDiv.textContent, for text without entities
StripTags(s) ==
  LET k == IndexOf(s, "<") IN
  IF k = 0 THEN s
  ELSE LET close == IndexOf(SubSeq(s, k + 1, Len(s)), ">") IN
       IF close = 0 THEN s
       ELSE SubSeq(s, 1, k - 1)
              \o StripTags(SubSeq(s, k + close + 1, Len(s)))

\* the texts of the pieces of an element's innerHTML
PieceTexts(html) ==
  LET pieces == SplitBr(html) IN
  [k \in 1..Len(pieces) |-> StripTags(Trim(pieces[k]))]

\* /^[#\d\s-]+$/
IsNumbersAndSymbols(s) ==
  s # <<>> /\ \A k \in 1..Len(s) : s[k] \in Digits \cup {"#", " ", "-"}

\* /^[A-Z]-[A-Z]$/
IsTightRange(s) ==
  Len(s) = 3 /\ IsUpper(s[1]) /\ s[2] = "-" /\ IsUpper(s[3])

\* /^[A-Z]\s*-\s*[A-Z]$/
IsSpacedRange(s) ==
  /\ Len(s) >= 3 /\ IsUpper(s[1]) /\ IsUpper(s[Len(s)])
  /\ Trim(SubSeq(s, 2, Len(s) - 1)) = <<"-">>

AttendHeader == <<"c", "o", "m", "p", "a", "n", "i", "e", "s", " ", "w", "h", "o", " ", "a", "t", "t", "e", "n", "d", " ", "i", "n", "c", "l", "u", "d", "e", ":">>

\* ManifestLineOk without the two tests for letter-range headers
ManifestLineOkNoRange(name, seen) ==
  LET trimmed == Trim(name) IN
  /\ trimmed # <<>>
  /\ Len(trimmed) > 1
  /\ Len(trimmed) < 200
  /\ ~IsNumbersAndSymbols(trimmed)
  /\ ToLower(trimmed) # AttendHeader
  /\ ToLower(trimmed) \notin seen

\* the filter of scrapeManifest on one piece of text
ManifestLineOk(name, seen) ==
  LET trimmed == Trim(name) IN
  /\ trimmed # <<>>
  /\ Len(trimmed) > 1
  /\ Len(trimmed) < 200
  /\ ~IsNumbersAndSymbols(trimmed)
  /\ ~IsTightRange(trimmed)
  /\ ~IsSpacedRange(trimmed)
  /\ ToLower(trimmed) # AttendHeader
  /\ ToLower(trimmed) \notin seen

\* the names one element of scrapeManifest contributes, seen being the set
\* as the elements before it left it
ManifestNames(el, seen) ==
  LET kept == SelectSeq(PieceTexts(el.html),
                        LAMBDA name : ManifestLineOk(name, seen))
  IN [k \in 1..Len(kept) |-> Trim(kept[k])]

Range(seq) == {seq[k] : k \in 1..Len(seq)}

RECURSIVE ManifestElements(_, _, _)
\* companyNameElements.forEach(...) of scrapeManifest
ManifestElements(els, seen, res) ==
  IF els = <<>> THEN res
  ELSE LET names == ManifestNames(Head(els), seen) IN
       ManifestElements(
         Tail(els),
         seen \cup {ToLower(n) : n \in Range(names)},
         res \o [k \in 1..Len(names) |->
                   AdapterRec(names[k], <<>>, "manifest", <<>>, Head(els))])

\* scrapeManifest on a page without Bootstrap column elements
scrapeManifest(dom) == ManifestElements(dom, {}, <<>>)

\* the names one category of scrapeSurfExpo contributes
SurfExpoNames(el, seen) ==
  LET texts == PieceTexts(el.html)
      names == [k \in 1..Len(texts) |-> Trim(texts[k])]
  IN SelectSeq(names,
       LAMBDA name :
         /\ name # <<>> /\ Len(name) > 1 /\ Len(name) < 200
         /\ (el.group \o <<"-">> \o ToLower(name)) \notin seen)

RECURSIVE SurfExpoCategories(_, _, _)
\* categoryHeaders.forEach(...) of scrapeSurfExpo
SurfExpoCategories(els, seen, res) ==
  IF els = <<>> THEN res
  ELSE LET el    == Head(els)
           names == IF el.group = <<>> THEN <<>> ELSE SurfExpoNames(el, seen)
       IN SurfExpoCategories(
            Tail(els),
            seen \cup {el.group \o <<"-">> \o ToLower(n) : n \in Range(names)},
            res \o [k \in 1..Len(names) |->
                      AdapterRec(names[k], <<>>, "surfexpo", el.group, el)])

\* scrapeSurfExpo on a page whose paragraphs all follow a category header
scrapeSurfExpo(dom) == SurfExpoCategories(dom, {}, <<>>)

\* if (name && name.length > 1) of the adapters without a seen set
HasName(el) == Len(Trim(el.name)) > 1

\* scrapeMapYourShow, for elements without a title attribute
scrapeMapYourShow(dom) ==
  LET kept == SelectSeq(dom, HasName) IN
  [k \in 1..Len(kept) |->
     AdapterRec(Trim(kept[k].name), MapYourShowWebsite(kept[k]),
                "mapyourshow", <<>>, kept[k])]

RECURSIVE A2ZTableRows(_, _, _)
\* tableRows.forEach(...) of scrapeA2Z; the booth label is the booth id
A2ZTableRows(rows, seen, res) ==
  IF rows = <<>> THEN res
  ELSE LET row  == Head(rows)
           name == Trim(row.name)
           key  == row.group \o <<"-">> \o ToLower(name)
       IN IF Len(name) > 1 /\ key \notin seen
          THEN A2ZTableRows(Tail(rows), seen \cup {key},
                 Append(res, AdapterRec(name, <<>>, "a2z", row.group, row)))
          ELSE A2ZTableRows(Tail(rows), seen, res)

\* scrapeA2Z: the rows with a data-boothid attribute are the EventMap
\* table; the other elements are what the fallback selectors match
scrapeA2Z(dom) ==
  LET rows         == SelectSeq(dom, LAMBDA el : el.group # <<>>)
      eventMapData == A2ZTableRows(rows, {}, <<>>)
      kept         == SelectSeq(dom, LAMBDA el : el.group = <<>> /\ HasName(el))
  IN IF Len(eventMapData) > 0 THEN eventMapData
     ELSE [k \in 1..Len(kept) |->
             AdapterRec(Trim(kept[k].name), A2ZWebsite(kept[k]), "a2z", <<>>,
                        kept[k])]

RECURSIVE SmallWorldLabsRows(_, _, _)
\* rows.forEach(...) of scrapeSmallWorldLabs, for rows of at least three
\* cells with a name link
SmallWorldLabsRows(rows, seen, res) ==
  IF rows = <<>> THEN res
  ELSE LET row  == Head(rows)
           name == Trim(row.name)
       IN IF SmallWorldLabsNameOk(name) /\ ToLower(name) \notin seen
          THEN SmallWorldLabsRows(Tail(rows), seen \cup {ToLower(name)},
                 Append(res, AdapterRec(name, SmallWorldLabsWebsite(row),
                                        "smallworldlabs",
                                        Trim(CollapseSpaces(row.group)),
                                        row)))
          ELSE SmallWorldLabsRows(Tail(rows), seen, res)

scrapeSmallWorldLabs(dom) == SmallWorldLabsRows(dom, {}, <<>>)

\* scrapeAffiliateSummit
scrapeAffiliateSummit(dom) ==
  LET kept == SelectSeq(dom, HasName) IN
  [k \in 1..Len(kept) |->
     AdapterRec(Trim(kept[k].name), FirstHttpLink(kept[k]),
                "affiliatesummit", <<>>, kept[k])]

\* scrapeGoShow
scrapeGoShow(dom) ==
  LET kept == SelectSeq(dom, HasName) IN
  [k \in 1..Len(kept) |->
     AdapterRec(Trim(kept[k].name), FirstHttpLink(kept[k]), "goeshow", <<>>,
                kept[k])]

RECURSIVE WpmaBooths(_, _, _)
\* boothElements.forEach(...) of scrapeWPMA: name is the first <strong>
\* text of the tooltip, group the booth number
WpmaBooths(els, seen, res) ==
  IF els = <<>> THEN res
  ELSE LET el   == Head(els)
           name == Trim(el.name)
           key  == el.group \o <<"-">> \o ToLower(name)
       IN IF Len(name) < 2 \/ key \in seen
          THEN WpmaBooths(Tail(els), seen, res)
          ELSE IF \E skip \in WpmaSkipNames : Includes(ToLower(name), skip)
          THEN WpmaBooths(Tail(els), seen \cup {key}, res)
          ELSE WpmaBooths(Tail(els), seen \cup {key},
                 Append(res, AdapterRec(name, <<>>, "wpma",
                          IF el.group = <<>> THEN <<>>
                          ELSE <<"M">> \o el.group, el)))

scrapeWPMA(dom) == WpmaBooths(dom, {}, <<>>)

RECURSIVE GenericItems(_, _, _, _)
\* selectors.forEach(... items.forEach(...)) of scrapeGeneric, the items of
\* all selectors in the order they are visited
GenericItems(els, seen, res, currentDomain) ==
  IF els = <<>> THEN res
  ELSE LET el        == Head(els)
           cleanText == Trim(CollapseSpaces(Trim(el.name)))
       IN IF /\ Len(cleanText) > 2 /\ Len(cleanText) < 100
             /\ ToLower(cleanText) \notin GenericFilterWords
             /\ ~IsDigitsAndSymbols(cleanText)
             /\ ToLower(cleanText) \notin seen
          THEN GenericItems(Tail(els), seen \cup {ToLower(cleanText)},
                 Append(res, AdapterRec(cleanText,
                          GenericWebsite(el, currentDomain), "generic",
                          <<>>, el)),
                 currentDomain)
          ELSE GenericItems(Tail(els), seen, res, currentDomain)

RECURSIVE GenericListItems(_, _, _, _)
\* the pass over 'li, tr, .list-item' when the selectors gave nothing, each
\* candidate being alone in its list item
GenericListItems(els, seen, res, currentDomain) ==
  IF els = <<>> THEN res
  ELSE LET el   == Head(els)
           text == Trim(el.name)
       IN IF /\ Len(text) > 2 /\ Len(text) < 100
             /\ ToLower(text) \notin GenericFilterWords
             /\ ToLower(text) \notin seen
          THEN GenericListItems(Tail(els), seen \cup {ToLower(text)},
                 Append(res, AdapterRec(text,
                          GenericWebsite(el, currentDomain), "generic",
                          <<>>, el)),
                 currentDomain)
          ELSE GenericListItems(Tail(els), seen, res, currentDomain)

scrapeGeneric(dom, currentDomain) ==
  LET results == GenericItems(dom, {}, <<>>, currentDomain) IN
  IF Len(results) = 0
  THEN GenericListItems(dom, {}, <<>>, currentDomain)
  ELSE results

\* the host of the page scrapeGeneric runs on
GenericHost == <<"e", "x", ".", "c", "o", "m">>

\* switch (pageType) of scrapeExhibitors and of handlePagination
Adapter(pt, dom) ==
  CASE pt = "manifest" -> scrapeManifest(dom)
    [] pt = "mapyourshow" -> scrapeMapYourShow(dom)
    [] pt = "a2z" -> scrapeA2Z(dom)
    [] pt = "smallworldlabs" -> scrapeSmallWorldLabs(dom)
    [] pt = "affiliatesummit" -> scrapeAffiliateSummit(dom)
    [] pt = "goeshow" -> scrapeGoShow(dom)
    [] pt = "wpma" -> scrapeWPMA(dom)
    [] pt = "surfexpo" -> scrapeSurfExpo(dom)
    [] OTHER -> scrapeGeneric(dom, GenericHost)

----------------------------------------------------------------------------
(* One adapter pass on its own: every template, over small pages            *)

MaxElements == 2   \* candidate elements of a page, at most
MaxPieces   == 2   \* <br>-separated pieces of a manifest / surfexpo element

NameAcme      == <<"A", "c", "m", "e", " ", "I", "n", "c">>
NameAcmeUpper == <<"A", "C", "M", "E", " ", "I", "N", "C">>
NameShort     == <<"X">>
NameHeader    == <<"N", "a", "m", "e">>

HrefCompany  == <<"h", "t", "t", "p", "s", ":", "/", "/", "a", "c", "m", "e", ".", "c", "o", "m">>
HrefFacebook == <<"h", "t", "t", "p", "s", ":", "/", "/", "f", "a", "c", "e", "b", "o", "o", "k", ".", "c", "o", "m", "/", "a", "c", "m", "e">>
HrefTikTok   == <<"h", "t", "t", "p", "s", ":", "/", "/", "w", "w", "w", ".", "t", "i", "k", "t", "o", "k", ".", "c", "o", "m", "/", "@", "a", "c", "m", "e">>
HrefPlatform == <<"h", "t", "t", "p", "s", ":", "/", "/", "x", ".", "g", "o", "e", "s", "h", "o", "w", ".", "c", "o", "m", "/", "e">>

ElementNames == {NameAcme, NameAcmeUpper, NameShort}

LinkLists ==
  {<<>>, <<HrefCompany>>, <<HrefFacebook, HrefCompany>>, <<HrefTikTok>>,
   <<HrefPlatform, HrefCompany>>}

BoothIds == {<<>>, <<"7">>}

Categories == {<<"S", "u", "r", "f">>, <<"S", "k", "a", "t", "e">>}

BrTag == <<"<", "b", "r", ">">>

RECURSIVE JoinBr(_)
JoinBr(pieces) ==
  IF Len(pieces) = 0 THEN <<>>
  ELSE IF Len(pieces) = 1 THEN pieces[1]
  ELSE pieces[1] \o BrTag \o JoinBr(Tail(pieces))

\* the innerHTML of the elements of name lists
NameListHtmls ==
  {JoinBr(ps) :
     ps \in UNION {[1..n -> {NameAcme, NameAcmeUpper}] : n \in 1..MaxPieces}}

\* the elements the selectors of a template can match
Elements(pt) ==
  CASE pt = "manifest" ->
         {El(<<>>, <<>>, <<>>, h) : h \in NameListHtmls}
    [] pt = "surfexpo" ->
         {El(<<>>, c, <<>>, h) : c \in Categories, h \in NameListHtmls}
    [] pt = "a2z" ->
         {El(n, b, l, <<>>) : n \in ElementNames, b \in BoothIds,
                              l \in LinkLists}
    [] pt = "wpma" ->
         {El(n, b, <<>>, <<>>) : n \in ElementNames, b \in BoothIds}
    [] pt = "smallworldlabs" ->
         {El(n, <<"7">>, l, <<>>) :
            n \in ElementNames \cup {NameHeader}, l \in LinkLists}
    [] OTHER ->
         {El(n, <<>>, l, <<>>) : n \in ElementNames, l \in LinkLists}

\* the elements of a page in document order, each knowing its position
InDocument(els) == [k \in 1..Len(els) |-> [els[k] EXCEPT !.at = k]]

Documents(pt) ==
  {InDocument(els) :
     els \in UNION {[1..n -> Elements(pt)] : n \in 0..MaxElements}}

AdapterInit ==
  /\ caller = "direct"
  /\ url \in TemplateUrls
  /\ reqOptions = NoOptions
  /\ options = NoOptions
  /\ pc = "adapter"
  /\ page = "open"
  /\ pending = "none"
  /\ pageType = detectPageType(url.s)
  /\ exhibitors = <<>>
  /\ firstPage = <<>>
  /\ extracted = <<>>
  /\ paginated = FALSE
  /\ pageCount = 0
  /\ without = <<>>
  /\ actualSearchCount = 0
  /\ i = 0
  /\ trace = <<>>
  /\ error = ""
  /\ response = NoResponse
  /\ navs = <<Nav("networkidle2", TRUE)>>
  /\ lastOutcome = ""
  /\ delayed = FALSE
  /\ document \in Documents(pageType)
  /\ resolver = IdleResolver
  /\ pagLog = <<>>
  /\ shared = NoCalls

\* exhibitors = await scrapeX(page), the adapter returning
RunAdapter ==
  /\ pc = "adapter"
  /\ exhibitors' = Adapter(pageType, document)
  /\ pc' = "scraped"
  /\ UNCHANGED <<caller, url, reqOptions, options, page, pending, pageType,
                 firstPage, extracted, paginated, pageCount, without,
                 actualSearchCount, i, trace, error, response, navs,
                 lastOutcome, delayed, document, resolver, pagLog, shared>>

AdapterSpec == AdapterInit /\ [][RunAdapter]_vars

\* the key the spec dedups by: the lowercased name, together with the booth
\* or category where the template groups by them
DedupKey(r) ==
  IF r.source \in {"a2z", "wpma", "surfexpo"}
  THEN <<r.booth, ToLower(r.companyName)>>
  ELSE <<ToLower(r.companyName)>>

\* C15 as stated: for every template, the records one adapter pass returns
\* contain no two records built from two different candidate elements whose
\* dedup keys are equal.
C15_PerPageDedup ==
  pc = "scraped" =>
    \A a, b \in 1..Len(exhibitors) :
      (a < b /\ exhibitors[a].from # exhibitors[b].from) =>
        DedupKey(exhibitors[a]) # DedupKey(exhibitors[b])

PlatformDomains ==
  {DomMapYourShow, DomA2Z, DomSmallWorldLabs, DomAffiliateSummit, DomGoeShow,
   DomManifest}

SocialMediaDomains ==
  {DomFacebook, DomTwitter, DomLinkedIn, DomInstagram, DomYouTube,
   DomPinterest, DomTikTok}

\* C16 as stated: the website of every record an adapter returns is empty or
\* an absolute http(s) URL whose host holds neither the domain of a
\* directory platform nor a social-media domain (facebook, twitter,
\* linkedin, instagram, youtube, pinterest, tiktok).
C16_WebsiteNotPlatformOrSocial ==
  pc = "scraped" =>
    \A k \in 1..Len(exhibitors) :
      LET w == exhibitors[k].website IN
      \/ w = <<>>
      \/ /\ IsHttp(w)
         /\ \A d \in PlatformDomains \cup SocialMediaDomains :
              ~Includes(Hostname(w), d)

\* C17 as stated: a non-streaming request gets exactly one response; when
\* the session returned a list the body is {success: true, data, count}
\* with count the length of data, and in every other case, a request
\* without a url included, the body carries success: false and an error
\* message.
C17_JsonResponse ==
  /\ (caller = "json" /\ pc # "done") => response = NoResponse
  /\ (caller = "json" /\ pc = "done") =>
       /\ response # NoResponse
       /\ Has(response, "success")
       /\ IF pending = "return"
          THEN /\ response.success = TRUE
               /\ Has(response, "data") /\ Has(response, "count")
               /\ response.data = exhibitors
               /\ response.count = Len(response.data)
          ELSE /\ response.success = FALSE
               /\ Has(response, "error")
               /\ response.error # ""

\* C18: when the caller gives no findWebsites, a session started through
\* POST /api/scrape never calls the resolver, while a returned session
\* started by a direct call of scrapeExhibitors has called it for the
\* records that came out of extraction without a website, in list order:
\* all of them, or the first maxWebsiteSearches when that option is given.
C18_FindWebsitesDefaults ==
  ~Has(reqOptions, "findWebsites") =>
    /\ caller \in {"stream", "json"} => ResolveCalls = <<>>
    /\ (caller = "direct" /\ SessionReturned) =>
         LET wo == WithoutWebsite(extracted)
             n  == IF Has(reqOptions, "maxWebsiteSearches")
                   THEN Min(reqOptions.maxWebsiteSearches, Len(wo))
                   ELSE Len(wo)
         IN CalledIdx = SubSeq(wo, 1, n)

\* an HTTP session without findWebsites has returned records without a
\* website and made no resolver call
C18_Witness ==
  /\ caller = "json" /\ pc = "done" /\ pending = "return"
  /\ ~Has(reqOptions, "findWebsites")
  /\ WithoutWebsite(extracted) # <<>>
  /\ ResolveCalls = <<>>
  /\ response.count = Len(exhibitors)

----------------------------------------------------------------------------
(* scrapeManifest on a page with one block of lines                         *)

MaxLines == 3   \* lines of the block, at most

LineAcme     == <<"A", "c", "m", "e", " ", "C", "o">>
LineBeta     == <<"B", "e", "t", "a", " ", "L", "L", "C">>
LineRange    == <<"A", " ", "-", " ", "F">>
LineTight    == <<"Q", "-", "Z">>
LineNumber   == <<"1", "2">>
LineSymbols  == <<"#", " ", "3", "-", "4">>
LineSpaces   == <<" ", " ">>
LineOneChar  == <<"X">>
LineHeader   == <<"C", "o", "m", "p", "a", "n", "i", "e", "s", " ", "W", "h", "o", " ", "A", "t", "t", "e", "n", "d", " ", "I", "n", "c", "l", "u", "d", "e", ":">>
LinePadded   == <<" ", "A", "c", "m", "e", " ", "C", "o", " ", " ">>
LineBold     == <<"<", "b", ">", "B", "e", "t", "a", " ", "L", "L", "C", "<", "/", "b", ">">>
LineLong     == [k \in 1..200 |-> "a"]

BlockLines ==
  {LineAcme, LineBeta, LineRange, LineTight, LineNumber, LineSymbols, <<>>,
   LineSpaces, LineOneChar, LineHeader, LinePadded, LineBold, LineLong}

ManifestDocuments ==
  {InDocument(<<El(<<>>, <<>>, <<>>, JoinBr(ps))>>) :
     ps \in UNION {[1..n -> BlockLines] : n \in 1..MaxLines}}

ManifestInit ==
  /\ caller = "direct"
  /\ url = UrlOf(<<"x", ".">> \o PatManifest \o <<"/", "e">>)
  /\ reqOptions = NoOptions
  /\ options = NoOptions
  /\ pc = "adapter"
  /\ page = "open"
  /\ pending = "none"
  /\ pageType = detectPageType(url.s)
  /\ exhibitors = <<>>
  /\ firstPage = <<>>
  /\ extracted = <<>>
  /\ paginated = FALSE
  /\ pageCount = 0
  /\ without = <<>>
  /\ actualSearchCount = 0
  /\ i = 0
  /\ trace = <<>>
  /\ error = ""
  /\ response = NoResponse
  /\ navs = <<Nav("networkidle2", TRUE)>>
  /\ lastOutcome = ""
  /\ delayed = FALSE
  /\ document \in ManifestDocuments
  /\ resolver = IdleResolver
  /\ pagLog = <<>>
  /\ shared = NoCalls

ManifestSpec == ManifestInit /\ [][RunAdapter]_vars

\* the names of the records returned, in order
ReturnedNames == [k \in 1..Len(exhibitors) |-> exhibitors[k].companyName]

\* s is made only of digits, '#', spaces and hyphens
OnlyNumbersAndSymbols(s) ==
  {s[k] : k \in 1..Len(s)} \subseteq Digits \cup {"#", " ", "-"}

\* s is a letter-range header: a capital, a hyphen with or without spaces
\* around it, a capital
LetterRangeHeader(s) ==
  /\ Len(s) >= 3
  /\ \E a, b \in 1..26 : s[1] = UpperLetters[a] /\ s[Len(s)] = UpperLetters[b]
  /\ \E p \in 2..(Len(s) - 1) :
       /\ s[p] = "-"
       /\ \A q \in 2..(Len(s) - 1) : q # p => s[q] = " "

\* the text of a line is kept according to the claim as stated
KeptAsStated(t) ==
  /\ Trim(t) # <<>>
  /\ ~OnlyNumbersAndSymbols(Trim(t))
  /\ ~LetterRangeHeader(Trim(t))
  /\ ToLower(Trim(t)) # ToLower(LineHeader)

\* the texts of the lines of the block, in order
BlockTexts == PieceTexts(document[1].html)

TrimAll(seq) == [k \in 1..Len(seq) |-> Trim(seq[k])]

ScenarioHtml == <<"A", "c", "m", "e", " ", "C", "o", "<", "b", "r", ">", "B", "e", "t", "a", " ", "L", "L", "C", "<", "b", "r", ">", "A", " ", "-", " ", "F">>

----------------------------------------------------------------------------
(* findCompanyWebsite: the probes of Stage A and the gate of Stage B        *)

\* a character the normalisation of a company name keeps
IsNameChar(c) == c \in Range(LowerLetters) \cup Digits \cup {" "}

\* the name in lower case, alphanumerics and spaces only
NormalizeName(name) == SelectSeq(ToLower(name), IsNameChar)

RECURSIVE WordsFrom(_, _)
\* the words of s, cur being the word under construction
WordsFrom(s, cur) ==
  LET done == IF cur = <<>> THEN <<>> ELSE <<cur>> IN
  IF s = <<>> THEN done
  ELSE IF Head(s) = " " THEN done \o WordsFrom(Tail(s), <<>>)
  ELSE WordsFrom(Tail(s), Append(cur, Head(s)))

Words(s) == WordsFrom(s, <<>>)

RECURSIVE Join(_, _)
Join(words, sep) ==
  IF words = <<>> THEN <<>>
  ELSE IF Len(words) = 1 THEN words[1]
  ELSE words[1] \o sep \o Join(Tail(words), sep)

RECURSIVE Dedup(_)
\* seq without its repetitions, first occurrences kept in order
Dedup(seq) ==
  IF seq = <<>> THEN <<>>
  ELSE LET rest == Dedup(SubSeq(seq, 1, Len(seq) - 1)) IN
       IF seq[Len(seq)] \in Range(rest) THEN rest
       ELSE Append(rest, seq[Len(seq)])

\* the candidate roots: concatenated, hyphenated, first word only
CandidateRoots(name) ==
  LET w == Words(NormalizeName(name)) IN
  IF w = <<>> THEN <<>>
  ELSE Dedup(<<Join(w, <<>>), Join(w, <<"-">>), w[1]>>)

RECURSIVE UrlsOfRoots(_)
\* for each root its bare and its www form, over https
UrlsOfRoots(roots) ==
  IF roots = <<>> THEN <<>>
  ELSE <<HttpsScheme \o Head(roots) \o TldCom,
         HttpsScheme \o Www \o Head(roots) \o TldCom>>
         \o UrlsOfRoots(Tail(roots))

\* the Stage-A candidate URLs of a company name, in probing order
CandidateUrls(name) == UrlsOfRoots(CandidateRoots(name))

\* resolve returns none
NoUrl == <<>>

\* the URL Stage B selects when the search gives a candidate
SearchUrl == HttpsScheme \o <<"a", "c", "m", "e", ".", "i", "o">>

\* the resolver at the call resolve(name): live is the set of URLs whose
\* existence check succeeds, credentials tells whether search credentials
\* are configured, hit whether the search gives a candidate
ResolverStart(name, live, credentials, hit) ==
  [pc |-> "stageA", name |-> name, urls |-> CandidateUrls(name), k |-> 1,
   probed |-> <<>>, live |-> live, credentials |-> credentials, hit |-> hit,
   searches |-> 0, result |-> NoUrl]

\* ProbeStep going on to the next candidate after a probe that succeeded
ProbeStepNoStop(r) ==
  LET u == r.urls[r.k] IN
  IF u \in r.live
  THEN [r EXCEPT !.probed = Append(@, u), !.result = u, !.k = @ + 1]
  ELSE [r EXCEPT !.probed = Append(@, u), !.k = @ + 1]

\* one existence check of Stage A: the first that succeeds is returned
ProbeStep(r) ==
  LET u == r.urls[r.k] IN
  IF u \in r.live
  THEN [r EXCEPT !.probed = Append(@, u), !.result = u, !.pc = "done"]
  ELSE [r EXCEPT !.probed = Append(@, u), !.k = @ + 1]

\* Stage A has failed: Stage B only if search credentials are configured
StageAEnd(r) ==
  IF r.credentials THEN [r EXCEPT !.pc = "stageB"]
  ELSE [r EXCEPT !.pc = "done"]

\* the one query of Stage B and its outcome
SearchStep(r) ==
  [r EXCEPT !.searches = @ + 1,
            !.result = IF r.hit THEN SearchUrl ELSE NoUrl,
            !.pc = "done"]

CompanyAcmeCorp == <<"A", "c", "m", "e", " ", "C", "o", "r", "p">>
CompanyAcme     == <<"A", "c", "m", "e">>
CompanyAtoZ     == <<"A", "-", "Z", " ", "&", " ", "C", "o", ".">>

ResolverNames == {CompanyAcmeCorp, CompanyAcme, CompanyAtoZ}

sessionState == <<caller, url, reqOptions, options, pc, page, pending,
                  pageType, exhibitors, firstPage, extracted, paginated,
                  pageCount, without, actualSearchCount, i, trace, error,
                  response, navs, lastOutcome, delayed, document, pagLog, shared>>

\* resolve(companyName) has just been called
ResolverInit ==
  /\ caller = "direct"
  /\ url = UrlOf(<<"x", ".">> \o PatManifest \o <<"/", "e">>)
  /\ reqOptions = NoOptions
  /\ options = NoOptions
  /\ pc = "resolving"
  /\ page = "open"
  /\ pending = "none"
  /\ pageType = detectPageType(url.s)
  /\ exhibitors = <<>>
  /\ firstPage = <<>>
  /\ extracted = <<>>
  /\ paginated = FALSE
  /\ pageCount = 0
  /\ without = <<>>
  /\ actualSearchCount = 0
  /\ i = 0
  /\ trace = <<>>
  /\ error = ""
  /\ response = NoResponse
  /\ navs = <<Nav("networkidle2", TRUE)>>
  /\ lastOutcome = ""
  /\ delayed = FALSE
  /\ document = <<>>
  /\ pagLog = <<>>
  /\ shared = NoCalls
  /\ \E name \in ResolverNames :
       \E live \in SUBSET Range(CandidateUrls(name)) :
         \E credentials, hit \in BOOLEAN :
           resolver = ResolverStart(name, live, credentials, hit)

\* Stage A probes its next candidate
Probe ==
  /\ resolver.pc = "stageA"
  /\ resolver.k <= Len(resolver.urls)
  /\ resolver' = ProbeStep(resolver)
  /\ UNCHANGED sessionState

\* every candidate of Stage A has been probed without success
StageAFailed ==
  /\ resolver.pc = "stageA"
  /\ resolver.k > Len(resolver.urls)
  /\ resolver' = StageAEnd(resolver)
  /\ UNCHANGED sessionState

\* Stage B issues its query
Search ==
  /\ resolver.pc = "stageB"
  /\ resolver' = SearchStep(resolver)
  /\ UNCHANGED sessionState

ResolverNext == Probe \/ StageAFailed \/ Search

ResolverSpec == ResolverInit /\ [][ResolverNext]_vars

\* the positions of the Stage-A candidates that are the first to answer
FirstLive ==
  {k \in 1..Len(resolver.urls) :
     /\ resolver.urls[k] \in resolver.live
     /\ \A j \in 1..(k - 1) : resolver.urls[j] \notin resolver.live}

AcmeCorpUrl == HttpsScheme \o <<"a", "c", "m", "e", "c", "o", "r", "p">> \o TldCom

\* C20: resolve probes the Stage-A candidate URLs in order, probes nothing
\* after a probe that succeeded and returns the first candidate whose probe
\* succeeds; Stage B is entered and the search issued only when every
\* Stage-A candidate has been probed without success and search credentials
\* are configured; "Acme Corp" with https://acmecorp.com answering returns
\* that URL without a search.
C20_StageAFirstSuccess ==
  /\ Len(resolver.probed) <= Len(resolver.urls)
  /\ resolver.probed = SubSeq(resolver.urls, 1, Len(resolver.probed))
  /\ \A j \in 1..(Len(resolver.probed) - 1) :
       resolver.probed[j] \notin resolver.live
  /\ \A k \in FirstLive :
       resolver.pc = "done" =>
         /\ resolver.result = resolver.urls[k]
         /\ Len(resolver.probed) = k
         /\ resolver.searches = 0
  /\ (resolver.pc = "stageB" \/ resolver.searches > 0) =>
       /\ resolver.credentials
       /\ FirstLive = {}
       /\ resolver.probed = resolver.urls
  /\ (resolver.pc = "done" /\ FirstLive = {} /\ ~resolver.credentials) =>
       resolver.searches = 0 /\ resolver.result = NoUrl
  /\ (/\ resolver.pc = "done"
      /\ resolver.name = CompanyAcmeCorp
      /\ AcmeCorpUrl \in resolver.live) =>
       resolver.result = AcmeCorpUrl /\ resolver.searches = 0

\* the second candidate answered after the first did not, and is returned
\* without a search although credentials are configured
C20_Witness ==
  /\ resolver.pc = "done"
  /\ resolver.name = CompanyAcmeCorp
  /\ resolver.credentials
  /\ Len(resolver.urls) = 6
  /\ resolver.probed = SubSeq(resolver.urls, 1, 2)
  /\ resolver.result = resolver.urls[2]
  /\ resolver.urls[3] \in resolver.live
  /\ resolver.searches = 0

----------------------------------------------------------------------------
(* findCompanyWebsite, Stage B: denylist, scoring and selection             *)

MaxResults == 2   \* results the search returns, at most (the resolver asks
                  \* for the top 5)

\* one raw result of the search
Result(u, title, snippet) == [url |-> u, title |-> title, snippet |-> snippet]

\* the name tokens that count in the score: words longer than 2 characters
NameTokens(name) ==
  {w \in Range(Words(NormalizeName(name))) : Len(w) > 2}

EndsWith(s, pat) ==
  Len(s) >= Len(pat) /\ SubSeq(s, Len(s) - Len(pat) + 1, Len(s)) = pat

\* the number of characters c in s
Count(s, c) == Cardinality({k \in 1..Len(s) : s[k] = c})

\* the part of an absolute URL after its host
PathOf(u) ==
  LET rest == IF StartsWith(u, HttpsScheme)
              THEN SubSeq(u, Len(HttpsScheme) + 1, Len(u))
              ELSE SubSeq(u, Len(HttpScheme) + 1, Len(u))
      at == IndexOf(rest, "/")
  IN IF at = 0 THEN <<>> ELSE SubSeq(rest, at, Len(rest))

\* the number of segments of the URL's path
PathDepth(u) == Cardinality({k \in 1..Len(PathOf(u)) :
                  PathOf(u)[k] = "/" /\ k < Len(PathOf(u))})

DomWikipedia  == <<"w", "i", "k", "i", "p", "e", "d", "i", "a", ".", "o", "r", "g">>
DomCrunchbase == <<"c", "r", "u", "n", "c", "h", "b", "a", "s", "e", ".", "c", "o", "m">>
DomBloomberg  == <<"b", "l", "o", "o", "m", "b", "e", "r", "g", ".", "c", "o", "m">>
DomSearch     == <<"g", "o", "o", "g", "l", "e", ".", "c", "o", "m">>

\* social media, wikipedia, crunchbase, bloomberg, the search engine itself
Denylist ==
  SocialMediaDomains \cup {DomWikipedia, DomCrunchbase, DomBloomberg, DomSearch}

Denylisted(r) == \E d \in Denylist : Includes(Hostname(r.url), d)

\* the domain has a subdomain other than www
HasSubdomain(domain) ==
  Count(domain, ".") >= 2 /\ ~StartsWith(domain, Www)

WordOfficial == <<"o", "f", "f", "i", "c", "i", "a", "l">>
WordHomepage == <<"h", "o", "m", "e", "p", "a", "g", "e">>

\* Score giving 10 once for the domain when any token is in it, instead of
\* 10 per token
ScoreAnyDomainToken(name, r) ==
  LET domain == Hostname(r.url)
      title == ToLower(r.title)
      snippet == ToLower(r.snippet)
      tokens == NameTokens(name)
  IN (IF \E t \in tokens : Includes(domain, t) THEN 10 ELSE 0)
     + 5 * Cardinality({t \in tokens : Includes(title, t)})
     + 2 * Cardinality({t \in tokens : Includes(snippet, t)})
     + (IF \E tld \in {TldCom, TldNet, TldOrg} : EndsWith(domain, tld)
        THEN 3 ELSE 0)
     - (IF HasSubdomain(domain) THEN 2 ELSE 0)
     - (IF PathDepth(r.url) > 4 THEN 1 ELSE 0)
     + (IF \E w \in {WordOfficial, WordHomepage} :
             Includes(title, w) \/ Includes(snippet, w)
        THEN 5 ELSE 0)

\* the score of one result for a company name
Score(name, r) ==
  LET domain == Hostname(r.url)
      title == ToLower(r.title)
      snippet == ToLower(r.snippet)
      tokens == NameTokens(name)
  IN 10 * Cardinality({t \in tokens : Includes(domain, t)})
     + 5 * Cardinality({t \in tokens : Includes(title, t)})
     + 2 * Cardinality({t \in tokens : Includes(snippet, t)})
     + (IF \E tld \in {TldCom, TldNet, TldOrg} : EndsWith(domain, tld)
        THEN 3 ELSE 0)
     - (IF HasSubdomain(domain) THEN 2 ELSE 0)
     - (IF PathDepth(r.url) > 4 THEN 1 ELSE 0)
     + (IF \E w \in {WordOfficial, WordHomepage} :
             Includes(title, w) \/ Includes(snippet, w)
        THEN 5 ELSE 0)

MinScore == 5

RECURSIVE BestOf(_, _, _)
\* the first of the candidates with the highest score, best being the best
\* of those already seen (<<>> when none has been seen)
BestOf(name, candidates, best) ==
  IF candidates = <<>> THEN best
  ELSE LET c == Head(candidates) IN
       BestOf(name, Tail(candidates),
              IF best = <<>> \/ Score(name, c) > Score(name, best[1])
              THEN <<c>> ELSE best)

\* SelectResult falling back on the first candidate left by the denylist
SelectResultFirstCandidate(name, results) ==
  LET candidates == SelectSeq(results, LAMBDA r : ~Denylisted(r))
      best == BestOf(name, candidates, <<>>)
  IN IF best # <<>> /\ Score(name, best[1]) >= MinScore THEN best[1].url
     ELSE IF candidates # <<>> THEN candidates[1].url
     ELSE NoUrl

\* what Stage B returns for the raw results of the search
SelectResult(name, results) ==
  LET candidates == SelectSeq(results, LAMBDA r : ~Denylisted(r))
      best == BestOf(name, candidates, <<>>)
  IN IF best # <<>> /\ Score(name, best[1]) >= MinScore THEN best[1].url
     ELSE IF results # <<>> THEN results[1].url
     ELSE NoUrl

\* the resolver entering Stage B: outcome is how the search call ends
\* ("ok", or "quota" / "network" for a call that fails), results what it
\* returns
StageBStart(name, outcome, results) ==
  [pc |-> "stageB", name |-> name, outcome |-> outcome, results |-> results,
   scores |-> <<>>, searches |-> 0, result |-> NoUrl]

\* the query of Stage B, the scoring of its results and the selection; a
\* failed call counts as no candidate
StageBStep(r) ==
  [r EXCEPT !.searches = @ + 1,
            !.scores = [k \in 1..Len(r.results) |-> Score(r.name, r.results[k])],
            !.result = IF r.outcome = "ok"
                       THEN SelectResult(r.name, r.results) ELSE NoUrl,
            !.pc = "done"]

UrlAcme      == HttpsScheme \o <<"a", "c", "m", "e">> \o TldCom
UrlCorpAcme  == HttpsScheme \o <<"c", "o", "r", "p", ".", "a", "c", "m", "e">> \o TldIo
UrlAcmeDeep  == HttpsScheme \o Www \o <<"a", "c", "m", "e">> \o TldCom
                  \o <<"/", "a", "/", "b", "/", "c", "/", "d", "/", "e">>
UrlShopDeep  == HttpsScheme \o <<"s", "h", "o", "p", ".", "x", "y", "z">> \o TldIo
                  \o <<"/", "a", "/", "b", "/", "c", "/", "d", "/", "e">>
UrlXyzIo     == HttpsScheme \o <<"x", "y", "z">> \o TldIo
UrlXyzCom    == HttpsScheme \o <<"x", "y", "z">> \o TldCom
UrlAcmeXyz   == HttpsScheme \o <<"a", "c", "m", "e", ".", "x", "y", "z">> \o TldIo
UrlFacebook  == HttpsScheme \o Www \o DomFacebook \o <<"/", "a", "c", "m", "e">>
UrlWikipedia == HttpsScheme \o <<"e", "n", ".">> \o DomWikipedia
                  \o <<"/", "w", "i", "k", "i", "/", "A", "c", "m", "e">>

TitleAcme     == <<"A", "c", "m", "e">>
TitleNews     == <<"N", "e", "w", "s">>
TitleOfficial == CompanyAcmeCorp \o <<" ">> \o <<"O", "f", "f", "i", "c", "i", "a", "l">>
SnippetHome   == <<"a", "c", "m", "e", " ", "c", "o", "r", "p", " ">> \o WordHomepage

\* the results the search may return
ResultPool ==
  {Result(UrlAcme, TitleAcme, <<>>),
   Result(AcmeCorpUrl, TitleAcme, <<>>),
   Result(UrlCorpAcme, TitleAcme, <<>>),
   Result(UrlAcmeDeep, <<>>, SnippetHome),
   Result(UrlShopDeep, TitleNews, <<>>),
   Result(UrlXyzIo, TitleNews, <<>>),
   Result(UrlAcmeXyz, TitleNews, <<>>),
   Result(UrlXyzIo, <<>>, WordOfficial),
   Result(UrlXyzCom, TitleNews, <<>>),
   Result(UrlFacebook, TitleOfficial, <<>>),
   Result(UrlWikipedia, TitleAcme, <<>>)}

StageBNames == {CompanyAcmeCorp, CompanyAtoZ}

\* the session while resolve(companyName) runs
SessionAtResolve ==
  /\ caller = "direct"
  /\ url = UrlOf(<<"x", ".">> \o PatManifest \o <<"/", "e">>)
  /\ reqOptions = NoOptions
  /\ options = NoOptions
  /\ pc = "resolving"
  /\ page = "open"
  /\ pending = "none"
  /\ pageType = detectPageType(url.s)
  /\ exhibitors = <<>>
  /\ firstPage = <<>>
  /\ extracted = <<>>
  /\ paginated = FALSE
  /\ pageCount = 0
  /\ without = <<>>
  /\ actualSearchCount = 0
  /\ i = 0
  /\ trace = <<>>
  /\ error = ""
  /\ response = NoResponse
  /\ navs = <<Nav("networkidle2", TRUE)>>
  /\ lastOutcome = ""
  /\ delayed = FALSE
  /\ document = <<>>
  /\ pagLog = <<>>
  /\ shared = NoCalls

\* Stage A has failed and credentials are configured
StageBInit ==
  /\ SessionAtResolve
  /\ \E name \in StageBNames :
       \/ \E results \in UNION {[1..n -> ResultPool] : n \in 0..MaxResults} :
            resolver = StageBStart(name, "ok", results)
       \/ \E outcome \in {"quota", "network"} :
            resolver = StageBStart(name, outcome, <<>>)

\* Stage B runs
SearchAndSelect ==
  /\ resolver.pc = "stageB"
  /\ resolver' = StageBStep(resolver)
  /\ UNCHANGED sessionState

StageBSpec == StageBInit /\ [][SearchAndSelect]_vars

\* the positions of the results the denylist leaves
Candidates == {k \in 1..Len(resolver.results) : ~Denylisted(resolver.results[k])}

\* the candidates no other candidate outscores
TopCandidates ==
  {k \in Candidates : \A j \in Candidates : resolver.scores[k] >= resolver.scores[j]}

\* C21: Stage B returns a highest-scoring non-denylisted candidate when that
\* candidate's score is at least 5; otherwise the first raw result of the
\* search if there is one; otherwise none.
C21_StageBSelection ==
  (resolver.pc = "done" /\ Len(resolver.scores) = Len(resolver.results)) =>
    IF \E k \in Candidates : resolver.scores[k] >= 5
    THEN \E k \in TopCandidates : resolver.result = resolver.results[k].url
    ELSE IF resolver.results # <<>>
    THEN resolver.result = resolver.results[1].url
    ELSE resolver.result = NoUrl

\* the first raw result is denylisted and the only candidate scores below
\* 5, so the denylisted first result is what Stage B returns
C21_Witness ==
  /\ resolver.pc = "done"
  /\ Len(resolver.results) = 2
  /\ Denylisted(resolver.results[1])
  /\ ~Denylisted(resolver.results[2])
  /\ resolver.scores[2] < 5
  /\ resolver.result = resolver.results[1].url

\* the name tokens found in the domain of a result
DomainTokens(name, r) ==
  {t \in NameTokens(name) : Includes(Hostname(r.url), t)}

\* C22: of two scored results with the same title, snippet and path, the
\* one whose domain holds one more name token (of length above 2) than the
\* other never has the lower score, whatever the TLD bonus and the
\* subdomain penalty of the two domains are.
C22_ScoreMonotonic ==
  (resolver.pc = "done" /\ Len(resolver.scores) = Len(resolver.results)) =>
    \A j, k \in 1..Len(resolver.results) :
      \A t \in NameTokens(resolver.name) :
        LET a == resolver.results[j]
            b == resolver.results[k]
        IN (/\ a.title = b.title
            /\ a.snippet = b.snippet
            /\ PathOf(a.url) = PathOf(b.url)
            /\ t \notin DomainTokens(resolver.name, a)
            /\ DomainTokens(resolver.name, b)
                 = DomainTokens(resolver.name, a) \cup {t})
           => resolver.scores[k] >= resolver.scores[j]

\* acme.com and corp.acme.io have been scored for "Acme Corp": the second
\* holds one more token, loses the TLD bonus and takes the subdomain penalty
C22_Witness ==
  /\ resolver.pc = "done"
  /\ resolver.name = CompanyAcmeCorp
  /\ resolver.results = <<Result(UrlAcme, TitleAcme, <<>>),
                          Result(UrlCorpAcme, TitleAcme, <<>>)>>
  /\ resolver.scores = <<18, 23>>

----------------------------------------------------------------------------
(* handlePagination: exhaustion, accumulation, page cap                     *)

\* the entry records one of the three ends of pagination the claim names:
\* no next control, a click that failed, an advanced page without records
IsExhaustion(e) ==
  e.op \in {"noNext", "clickFails"} \/ (e.op = "scrape" /\ e.list = <<>>)

RECURSIVE Appended(_)
\* the records of the advanced pages of a history, in visit order
Appended(log) ==
  IF log = <<>> THEN <<>>
  ELSE IF Len(log) = 1 THEN log[1].list
  ELSE LET half == Len(log) \div 2 IN
       Appended(SubSeq(log, 1, half)) \o Appended(SubSeq(log, half + 1, Len(log)))

\* C23: an entry of the history for no next control, a failed click or an
\* advanced page without records is the last entry of the history (no
\* click, adapter call or append follows it), handlePagination has then
\* returned, and what it returned is the list accumulated so far: the first
\* page followed by the records of the advanced pages.
C23_ExhaustedIsTerminal ==
  \A k \in 1..Len(pagLog) :
    IsExhaustion(pagLog[k]) =>
      /\ k = Len(pagLog)
      /\ pc = "emit"
      /\ extracted = exhibitors
      /\ exhibitors = firstPage \o Appended(pagLog)

\* an advance gave records, the next advance gave none, and pagination ended
C23_Witness ==
  /\ pc = "emit"
  /\ Len(pagLog) = 4
  /\ pagLog[1].op = "click"
  /\ pagLog[2].op = "scrape" /\ pagLog[2].list # <<>>
  /\ pagLog[3].op = "click"
  /\ pagLog[4] = Did("scrape", <<>>)
  /\ extracted = firstPage \o pagLog[2].list

RECURSIVE PageCounts(_)
\* the sum of the record counts of the advanced pages of a history
PageCounts(log) ==
  IF log = <<>> THEN 0
  ELSE IF Len(log) = 1 THEN Len(log[1].list)
  ELSE LET half == Len(log) \div 2 IN
       PageCounts(SubSeq(log, 1, half)) + PageCounts(SubSeq(log, half + 1, Len(log)))

\* C24: the accumulated list is the first-page records followed by the
\* records of each advanced page in visit order, its length is the sum of
\* the per-page counts, and every step leaves the previous list as a prefix
\* of the new one: nothing is removed, reordered or deduplicated.
C24_AppendOnly ==
  /\ [](/\ exhibitors = firstPage \o Appended(pagLog)
        /\ Len(exhibitors) = Len(firstPage) + PageCounts(pagLog))
  /\ [][/\ Len(exhibitors') >= Len(exhibitors)
        /\ SubSeq(exhibitors', 1, Len(exhibitors)) = exhibitors]_vars

\* handlePagination returned a list in which an advanced page repeats a
\* record of the first page
C24_Witness ==
  /\ pc = "emit"
  /\ Len(extracted) > Len(firstPage)
  /\ \E j \in 1..Len(firstPage) :
       \E k \in (Len(firstPage) + 1)..Len(extracted) :
         extracted[j] = extracted[k]

\* the page the session is on, the first rendered page being page 1
currentPage == 1 + pageCount

\* C25: currentPage never exceeds the template's page cap, so records are
\* extracted from at most pageCap pages, the first included.
C25_PagesWithinCap == currentPage <= PageCap(pageType)

----------------------------------------------------------------------------
(* scrapeManifest: lines repeated inside one block                          *)

\* C26: the manifest adapter returns one record for two lines that are
\* equal ignoring case, also when both lines sit in the same block of one
\* element: no two returned records have names equal ignoring case.
C26_SameBlockDedup ==
  pc = "scraped" =>
    \A j, k \in 1..Len(exhibitors) :
      j # k => ToLower(exhibitors[j].companyName)
                 # ToLower(exhibitors[k].companyName)

----------------------------------------------------------------------------
(* Delivery of every returned record                                        *)

\* the indices of the records delivered in exhibitor events
Delivered == {trace[k].idx : k \in Positions(trace, "exhibitor")}

\* C27: in a streaming session that ended with complete, every record of
\* the returned list has been delivered in an exhibitor event, and the
\* number of distinct records delivered is the count of the complete event.
C27_AllDelivered ==
  (caller = "stream" /\ pc = "done" /\ trace # <<>>
     /\ trace[Len(trace)].type = "complete") =>
    /\ Delivered = 1..Len(exhibitors)
    /\ Cardinality(Delivered) = trace[Len(trace)].idx

----------------------------------------------------------------------------
(* getBrowser under concurrent sessions.  A session runs until its next     *)
(* await; at an await any other session may run.                            *)

MaxSessions == 2   \* sessions that call getBrowser concurrently

Sessions == 1..MaxSessions

\* one call of getBrowser: its position, the browser it launched (0: none),
\* the browser it returned (0: none), and whether a connected shared browser
\* existed when it called puppeteer.launch
BrowserCall(p, mine, got, raced) ==
  [pc |-> p, mine |-> mine, got |-> got, raced |-> raced]

\* the module-level browser (0: null), the browsers that are connected, the
\* number of browsers launched, the environment, the calls
SharedStart(browser, serverless) ==
  [browser |-> browser,
   connected |-> IF browser = 0 THEN {} ELSE {browser},
   launched |-> browser,
   serverless |-> serverless,
   calls |-> [s \in Sessions |-> BrowserCall("start", 0, 0, FALSE)]]

SharedConnected(sh) == sh.browser # 0 /\ sh.browser \in sh.connected

\* the call of session s moves to position p
At(sh, s, p) == [sh EXCEPT !.calls[s].pc = p]

\* the branch after the close of a stale browser: executablePath is awaited
\* in a serverless environment, otherwise puppeteer.launch is called
BeforeLaunch(sh, s) ==
  IF sh.serverless THEN At(sh, s, "exePath")
  ELSE [sh EXCEPT !.calls[s].pc = "launching",
                  !.calls[s].raced = SharedConnected(sh)]

\* if (!browser || !browser.isConnected()) ... else return browser
EnterGetBrowser(sh, s) ==
  IF SharedConnected(sh)
  THEN [sh EXCEPT !.calls[s].pc = "got", !.calls[s].got = sh.browser]
  ELSE IF sh.browser # 0 THEN At(sh, s, "closing")
  ELSE BeforeLaunch(sh, s)

\* puppeteer.launch is called once executablePath has resolved
CallLaunch(sh, s) ==
  [sh EXCEPT !.calls[s].pc = "launching",
             !.calls[s].raced = SharedConnected(sh)]

\* browser = await puppeteer.launch(...); return browser
FinishLaunch(sh, s) ==
  LET id == sh.launched + 1 IN
  [sh EXCEPT !.launched = id,
             !.connected = @ \cup {id},
             !.browser = id,
             !.calls[s].mine = id,
             !.calls[s].got = id,
             !.calls[s].pc = "got"]

sessionAndResolver == <<caller, url, reqOptions, options, pc, page, pending,
                        pageType, exhibitors, firstPage, extracted, paginated,
                        pageCount, without, actualSearchCount, i, trace,
                        error, response, navs, lastOutcome, delayed, document,
                        resolver, pagLog>>

\* sessions are about to call getBrowser; a connected browser may exist
BrowserInit ==
  /\ caller = "direct"
  /\ url = UrlOf(<<"x", ".">> \o PatManifest \o <<"/", "e">>)
  /\ reqOptions = NoOptions
  /\ options = NoOptions
  /\ pc = "getBrowser"
  /\ page = "null"
  /\ pending = "none"
  /\ pageType = ""
  /\ exhibitors = <<>>
  /\ firstPage = <<>>
  /\ extracted = <<>>
  /\ paginated = FALSE
  /\ pageCount = 0
  /\ without = <<>>
  /\ actualSearchCount = 0
  /\ i = 0
  /\ trace = <<>>
  /\ error = ""
  /\ response = NoResponse
  /\ navs = <<>>
  /\ lastOutcome = ""
  /\ delayed = FALSE
  /\ document = <<>>
  /\ resolver = IdleResolver
  /\ pagLog = <<>>
  /\ \E browser \in {0, 1}, serverless \in BOOLEAN :
       shared = SharedStart(browser, serverless)

\* a session reaches browser = await getBrowser() and runs to its first await
Enter ==
  /\ \E s \in Sessions :
       /\ shared.calls[s].pc = "start"
       /\ shared' = EnterGetBrowser(shared, s)
  /\ UNCHANGED sessionAndResolver

\* await browser.close() of the stale browser is over, whatever it gave
CloseDone ==
  /\ \E s \in Sessions :
       /\ shared.calls[s].pc = "closing"
       /\ shared' = BeforeLaunch(shared, s)
  /\ UNCHANGED sessionAndResolver

\* await chromium.executablePath() is over
ExePathDone ==
  /\ \E s \in Sessions :
       /\ shared.calls[s].pc = "exePath"
       /\ \E ok \in BOOLEAN :
            shared' = IF ok THEN CallLaunch(shared, s)
                      ELSE At(shared, s, "failed")
  /\ UNCHANGED sessionAndResolver

\* await puppeteer.launch(...) is over
LaunchDone ==
  /\ \E s \in Sessions :
       /\ shared.calls[s].pc = "launching"
       /\ \E ok \in BOOLEAN :
            shared' = IF ok THEN FinishLaunch(shared, s)
                      ELSE At(shared, s, "failed")
  /\ UNCHANGED sessionAndResolver

\* the shared browser loses its connection
Disconnect ==
  /\ SharedConnected(shared)
  /\ shared' = [shared EXCEPT !.connected = @ \ {shared.browser}]
  /\ UNCHANGED sessionAndResolver

BrowserNext == Enter \/ CloseDone \/ ExePathDone \/ LaunchDone \/ Disconnect

BrowserSpec == BrowserInit /\ [][BrowserNext]_vars

\* C28: under any interleaving, puppeteer.launch is called only when no
\* connected shared browser exists; as long as no browser has lost its
\* connection, the sessions that got a browser got the same one; and every
\* connected browser that was launched is the one the module-level variable
\* refers to.
C28_SingleBrowser ==
  /\ \A s \in Sessions : ~shared.calls[s].raced
  /\ shared.connected = 1..shared.launched =>
       \A s, t \in Sessions :
         (shared.calls[s].got # 0 /\ shared.calls[t].got # 0) =>
           shared.calls[s].got = shared.calls[t].got
  /\ \A id \in shared.connected : id = shared.browser

----------------------------------------------------------------------------
(* What website resolution changes                                          *)

\* the records resolution attempts: the first maxWebsiteSearches of those
\* extraction left without a website, none when discovery is disabled
Attempted ==
  IF FindWebsitesOn(options)
  THEN LET wo == WithoutWebsite(extracted) IN
       {wo[j] : j \in 1..SearchCount(options, Len(wo))}
  ELSE {}

\* extraction is over and did not throw
Resolving ==
  /\ pending # "throw"
  /\ pc \in {"emit", "loop", "resolving", "delay", "finally", "returned", "done"}

\* C30: from the end of extraction on, the record list keeps its length and
\* order, every record differs from the extracted one in its website field
\* at most, and the records resolution does not attempt (those that had a
\* website, those beyond the first maxWebsiteSearches without one) are
\* exactly as extraction produced them.
C30_OnlyWebsiteChanges ==
  Resolving =>
    /\ Len(exhibitors) = Len(extracted)
    /\ \A k \in 1..Len(exhibitors) :
         /\ [exhibitors[k] EXCEPT !.website = extracted[k].website] = extracted[k]
         /\ k \notin Attempted => exhibitors[k] = extracted[k]

\* a session returned with the second record resolved, the first one having
\* had its website from extraction
C30_Witness ==
  /\ SessionReturned
  /\ Len(extracted) = 2
  /\ extracted[1].website # ""
  /\ exhibitors[1] = extracted[1]
  /\ extracted[2].website = ""
  /\ exhibitors[2].website = FoundUrl

----------------------------------------------------------------------------
(* Callbacks that throw, and the close of the page *)

\* callbacks of a direct caller that may throw when they are invoked
ThrowingCallbacks == [onProgress |-> "mayThrow", onExhibitorFound |-> "mayThrow"]

MayThrow(o, k) == Has(o, k) /\ o[k] = "mayThrow"

\* the invocation of a callback that throws
Threw(e) == Ev("callbackThrow", e.type, e.idx, "")

\* the callback invocations of lines 162-274 up to the loop, in order
EmitTrace(o, tr, ex) ==
  LET tr1 == EmitInitial(o, tr, ex)
      wo  == WithoutWebsite(ex)
  IN IF FindWebsitesOn(o)
     THEN LET tr2 == onProgress(o, tr1, "summary", Len(wo)) IN
          IF Len(wo) > 0
          THEN onProgress(o, tr2, "searching", SearchCount(o, Len(wo)))
          ELSE tr2
     ELSE EmitDisabled(o, tr1, ex)

\* one of the invocations of lines 162-274 throws: the outer catch rethrows
EmitThrows ==
  /\ pc = "emit"
  /\ \E full \in {EmitTrace(options, trace, exhibitors)} :
     \E n \in {Len(trace) + 1, Len(full)} \cap DOMAIN full :  \* first or last
       /\ MayThrow(options, IF full[n].type = "progress" THEN "onProgress"
                            ELSE "onExhibitorFound")
       /\ trace' = Append(SubSeq(full, 1, n - 1), Threw(full[n]))
  /\ Throw("callback failed")
  /\ pagLog' = IF pagLog = NotKept THEN pagLog ELSE <<>>
  /\ UNCHANGED <<caller, url, reqOptions, options, page, pageType, exhibitors,
                 firstPage, extracted, paginated, pageCount, without,
                 actualSearchCount, i, response,
                 navs, lastOutcome, delayed,
                 document, resolver, shared>>

\* catch (err) { exhibitor.website = ''; options.onExhibitorFound(exhibitor) }
\* entered because a callback threw inside the try: the callback of the catch
\* returns, or throws and the outer catch rethrows
InnerCatch(tr, k) ==
  LET ex == SetWebsite(exhibitors, k, "") IN
  /\ exhibitors' = ex
  /\ \/ /\ trace' = onExhibitorFound(options, tr, ex, k)
        /\ i' = i + 1
        /\ pc' = "loop"
        /\ UNCHANGED <<pending, error>>
     \/ /\ MayThrow(options, "onExhibitorFound")
        /\ trace' = Append(tr, Threw(Ev("exhibitor", "", k, "")))
        /\ Throw("callback failed")
        /\ UNCHANGED i

\* options.onProgress of line 221 throws inside the try
ProgressThrows ==
  /\ pc = "loop"
  /\ i < actualSearchCount
  /\ MayThrow(options, "onProgress")
  /\ LET k == without[i + 1] IN
       /\ exhibitors[k].website = ""
       /\ InnerCatch(Append(trace, Threw(Ev("progress", "attempt", k, ""))), k)
  /\ UNCHANGED <<caller, url, reqOptions, options, page, pageType,
                 firstPage, extracted, paginated, pageCount, without,
                 actualSearchCount, response,
                 navs, lastOutcome, delayed,
                 document, resolver, pagLog, shared>>

\* findCompanyWebsite returns and options.onExhibitorFound of line 237
\* throws, or findCompanyWebsite throws and the callback of the catch throws
RecordThrows ==
  /\ pc = "resolving"
  /\ MayThrow(options, "onExhibitorFound")
  /\ LET k == without[i + 1] IN
     \E r \in ResolverOutcomes(exhibitors[k].companyName) :
       LET tr == Append(trace, Ev("resolve", "end", k, "")) IN
       /\ lastOutcome' = r
       /\ delayed' = FALSE
       /\ IF r = "throw"
          THEN /\ exhibitors' = SetWebsite(exhibitors, k, "")
               /\ trace' = Append(tr, Threw(Ev("exhibitor", "", k, "")))
               /\ Throw("callback failed")
               /\ UNCHANGED i
          ELSE InnerCatch(Append(tr, Threw(Ev("exhibitor", "", k, ""))), k)
  /\ UNCHANGED <<caller, url, reqOptions, options, page, pageType,
                 firstPage, extracted, paginated, pageCount, without,
                 actualSearchCount, response, navs,
                 document, resolver, pagLog, shared>>

\* a direct call of scrapeExhibitors with callbacks that may throw
CallbackInit ==
  /\ caller = "direct"
  /\ url \in SessionUrls
  /\ reqOptions \in {d @@ ThrowingCallbacks :
                        d \in {o \in DataOptions : Has(o, "maxWebsiteSearches")}}
  /\ options = NoOptions
  /\ pc = "request"
  /\ page = "null"
  /\ pending = "none"
  /\ pageType = ""
  /\ exhibitors = <<>>
  /\ firstPage = <<>>
  /\ extracted = <<>>
  /\ paginated = FALSE
  /\ pageCount = 0
  /\ without = <<>>
  /\ actualSearchCount = 0
  /\ i = 0
  /\ trace = <<>>
  /\ error = ""
  /\ response = NoResponse
  /\ navs = <<>>
  /\ lastOutcome = ""
  /\ delayed = FALSE
  /\ document = <<>>
  /\ resolver = IdleResolver
  /\ pagLog = NotKept
  /\ shared = NoCalls

CallbackNext ==
  \/ DirectRequest
  \/ ValidateUrl
  \/ AcquireBrowser
  \/ NewPage
  \/ Goto
  \/ GotoRetry
  \/ Extract
  \/ PagHead
  \/ PagScrape
  \/ EmitAndSetup
  \/ EmitThrows
  \/ LoopHead
  \/ ProgressThrows
  \/ ResolveEnd
  \/ RecordThrows
  \/ Delay
  \/ Finally
  \/ DirectFinish

CallbackSpec == CallbackInit /\ [][CallbackNext]_vars

\* the progress and record events delivered so far
ProgressAndRecords(tr) == SelectSeq(tr, LAMBDA e : e.type \in {"progress", "exhibitor"})

Left == pc \in {"returned", "thrown", "done"}

\* C29: a session that opened a page attempts to close it exactly once before
\* scrapeExhibitors returns or throws, on the success path and on every
\* failure path, callbacks that throw included; a failing close leaves the
\* outcome (return or throw, the error, the records) as it was; and no
\* progress or record event follows the close.
C29_CloseOnce ==
  /\ [](Left => /\ page \in {"null", "closed", "closeFailed"}
                /\ pending \in {"return", "throw"}
                /\ pc = "returned" => pending = "return"
                /\ pc = "thrown" => pending = "throw")
  /\ [][/\ (page = "open" /\ page' # page) => (pc = "finally" /\ Left')
        /\ (page # "open" /\ page # "null") =>
              /\ page' = page
              /\ ProgressAndRecords(trace') = ProgressAndRecords(trace)
        /\ (page = "null" /\ page' # page) => page' = "open"
        /\ pc = "finally" =>
              /\ error' = error /\ exhibitors' = exhibitors /\ trace' = trace
              /\ pc' = IF pending = "return" THEN "returned" ELSE "thrown"
        /\ (~Left /\ Left') => pc = "finally"
       ]_vars

\* a callback threw after records were delivered, the close failed, and the
\* session still throws the callback's error
C29_Witness ==
  /\ pc = "thrown"
  /\ page = "closeFailed"
  /\ error = "callback failed"
  /\ \E k \in 1..Len(trace) : trace[k].type = "exhibitor"
  /\ trace[Len(trace)].type = "callbackThrow"

====
